---- MODULE Spec2Model ----
(***************************************************************************)
(* RadarCol contract-data pipeline: lib/contractsService.ts (query         *)
(* construction, list and detail fetch, normalisation) and the dashboard   *)
(* page's sortContracts.                                                   *)
(*                                                                         *)
(* Conventions of the model:                                               *)
(*  - a JavaScript string is a tuple of one-character strings;             *)
(*  - a JavaScript value that arrives from JSON is a record                *)
(*    [t, s, n]: t its type tag, s its characters when a string, n its     *)
(*    value when a number (integers only);                                 *)
(*  - a parsed decimal number is [nan, num, den] with value num/den and    *)
(*    den a power of ten.                                                  *)
(***************************************************************************)
EXTENDS Integers, Sequences, FiniteSets, TLC

VARIABLES detail, list, query, sort, riskFilter, paged, stats, health, dash, panel

vars == <<detail, list, query, sort, riskFilter, paged, stats, health, dash, panel>>

(***************************************************************************)
(* Bounds of the model                                                     *)
(***************************************************************************)
\* longest 'contratos' array a list response carries
MaxContratos == 2
\* longest contract list handed to sortContracts
MaxSortLen == 4
\* longest list handed to paginateData (besides the list of 23)
MaxItems == 5
\* largest page size handed to paginateData (besides the page size 10)
MaxPageSize == 3
\* pages requested from paginateData run from -MaxPage to MaxPage + 1
MaxPage == 3
\* seconds the clock of a health check runs on for
MaxElapsed == 12
\* most pipeline runs of the dashboard in flight at a time
MaxInFlight == 2

(***************************************************************************)
(* JavaScript values                                                       *)
(***************************************************************************)
Undefined == [t |-> "undefined", s |-> <<>>, n |-> 0]

Null == [t |-> "null", s |-> <<>>, n |-> 0]

Str(chars) == [t |-> "string", s |-> chars, n |-> 0]

Num(k) == [t |-> "number", s |-> <<>>, n |-> k]

\* ToBoolean of a JSON value
Truthy(v) ==
  CASE v.t = "string" -> v.s # <<>>
    [] v.t = "number" -> v.n # 0
    [] OTHER -> FALSE

Digits == {"0", "1", "2", "3", "4", "5", "6", "7", "8", "9"}

DigitVal(c) ==
  CASE c = "0" -> 0 [] c = "1" -> 1 [] c = "2" -> 2 [] c = "3" -> 3
    [] c = "4" -> 4 [] c = "5" -> 5 [] c = "6" -> 6 [] c = "7" -> 7
    [] c = "8" -> 8 [] c = "9" -> 9

DigitChar(d) ==
  CASE d = 0 -> "0" [] d = 1 -> "1" [] d = 2 -> "2" [] d = 3 -> "3"
    [] d = 4 -> "4" [] d = 5 -> "5" [] d = 6 -> "6" [] d = 7 -> "7"
    [] d = 8 -> "8" [] d = 9 -> "9"

\* value of a tuple of digit characters (0 for the empty tuple)
RECURSIVE DigitsVal(_)
DigitsVal(ds) ==
  IF ds = <<>> THEN 0
  ELSE 10 * DigitsVal(SubSeq(ds, 1, Len(ds) - 1)) + DigitVal(ds[Len(ds)])

RECURSIVE Pow10(_)
Pow10(k) == IF k = 0 THEN 1 ELSE 10 * Pow10(k - 1)

\* Number.prototype.toString of a non-negative integer
RECURSIVE NatToString(_)
NatToString(k) ==
  IF k < 10 THEN <<DigitChar(k)>>
  ELSE Append(NatToString(k \div 10), DigitChar(k % 10))

\* Number.prototype.toString of an integer
NumberToString(k) == IF k < 0 THEN <<"-">> \o NatToString(-k) ELSE NatToString(k)

\* length of the longest prefix of s made of digits
RECURSIVE DigitRun(_)
DigitRun(s) ==
  IF s # <<>> /\ Head(s) \in Digits THEN 1 + DigitRun(Tail(s)) ELSE 0

NaN == [nan |-> TRUE, num |-> 0, den |-> 1]

\* a decimal in lowest power-of-ten terms
RECURSIVE Decimal(_, _)
Decimal(num, den) ==
  IF den > 1 /\ num % 10 = 0 THEN Decimal(num \div 10, den \div 10)
  ELSE [nan |-> FALSE, num |-> num, den |-> den]

\* parseFloat over the characters that survive the strip (digits, '.', '-'):
\* the longest prefix  -? digits* (. digits*)?  holding at least one digit;
\* NaN when there is none
parseFloat(s) ==
  LET neg == s # <<>> /\ Head(s) = "-"
      body == IF neg THEN Tail(s) ELSE s
      i == DigitRun(body)
      rest == SubSeq(body, i + 1, Len(body))
      dot == rest # <<>> /\ Head(rest) = "."
      f == IF dot THEN DigitRun(Tail(rest)) ELSE 0
      ip == DigitsVal(SubSeq(body, 1, i))
      fp == IF dot THEN DigitsVal(SubSeq(rest, 2, f + 1)) ELSE 0
      mag == ip * Pow10(f) + fp
  IN IF i = 0 /\ f = 0 THEN NaN
     ELSE Decimal(IF neg THEN -mag ELSE mag, Pow10(f))

\* String.prototype.replace(/[^0-9.-]/g, '')
StripNonNumeric(s) == SelectSeq(s, LAMBDA c : c \in Digits \cup {".", "-"})

(***************************************************************************)
(* Query Builder: buildQueryParams                                         *)
(***************************************************************************)
Min(a, b) == IF a < b THEN a ELSE b

Max(a, b) == IF a > b THEN a ELSE b

\* the application/x-www-form-urlencoded byte serialisation URLSearchParams
\* applies to one character of a name or value: letters, digits and * - . _
\* stay, a space becomes '+', anything else is percent-encoded
FormEncodeChar(c) ==
  CASE c = " " -> <<"+">>
    [] c = "&" -> <<"%", "2", "6">>
    [] c = "=" -> <<"%", "3", "D">>
    [] c = "$" -> <<"%", "2", "4">>
    [] OTHER -> <<c>>

RECURSIVE FormEncode(_)
FormEncode(s) ==
  IF s = <<>> THEN <<>> ELSE FormEncodeChar(Head(s)) \o FormEncode(Tail(s))

\* URLSearchParams.toString(): name=value pairs joined by '&'.  A parameter
\* name is one token of the result (the names are fixed identifiers that
\* serialise unchanged); a value is serialised character by character.
RECURSIVE ParamsToString(_)
ParamsToString(params) ==
  IF params = <<>> THEN <<>>
  ELSE <<params[1].name, "=">> \o FormEncode(params[1].value)
       \o (IF Len(params) > 1 THEN <<"&">> ELSE <<>>)
       \o ParamsToString(Tail(params))

LimitParam_unclamped(limit) ==
  IF limit # Undefined
  THEN <<[name |-> "limit", value |-> NumberToString(limit.n)]>>
  ELSE <<>>

\* if (limit !== undefined) params.append("limit", clamp(limit, 1, 100))
LimitParam(limit) ==
  IF limit # Undefined
  THEN <<[name |-> "limit", value |-> NumberToString(Min(Max(limit.n, 1), 100))]>>
  ELSE <<>>

\* if (filters?.<field>) params.append(name, filters.<field>)
TextParam(name, v) ==
  IF Truthy(v) THEN <<[name |-> name, value |-> v.s]>> ELSE <<>>

ValorParam_passThrough(name, v) ==
  IF v # Undefined THEN <<[name |-> name, value |-> NumberToString(v.n)]>> ELSE <<>>

\* if (filters?.<field> !== undefined && filters.<field> >= 0)
\*   params.append(name, filters.<field>.toString())
ValorParam(name, v) ==
  IF v # Undefined /\ v.n >= 0
  THEN <<[name |-> name, value |-> NumberToString(v.n)]>>
  ELSE <<>>

\* if (filters?.nombreContrato && filters.nombreContrato.length >= 3)
NombreParam(v) ==
  IF Truthy(v) /\ Len(v.s) >= 3
  THEN <<[name |-> "nombre_contrato", value |-> v.s]>>
  ELSE <<>>

buildQueryParams(filters, limit) ==
  LET params == LimitParam(limit)
                \o TextParam("fecha_desde", filters.fechaDesde)
                \o TextParam("fecha_hasta", filters.fechaHasta)
                \o ValorParam("valor_minimo", filters.valorMinimo)
                \o ValorParam("valor_maximo", filters.valorMaximo)
                \o NombreParam(filters.nombreContrato)
                \o TextParam("id_contrato", filters.idContrato)
      text == ParamsToString(params)
  IN IF text # <<>> THEN <<"?">> \o text ELSE <<>>

\* ContractFilters values the model draws from; nivelesRiesgo is the
\* client-only list of risk levels (absent when present = FALSE)
FechaSamples == {Undefined, Str(<<"2", "4", "-", "0", "1">>)}

ValorSamples == {Undefined, Num(-5), Num(0), Num(70)}

NombreSamples ==
  {Undefined, Str(<<>>), Str(<<"a", "b">>), Str(<<"a", " ", "&">>)}

IdSamples == {Undefined, Str(<<>>), Str(<<"C", "1">>)}

NivelesSamples ==
  { [present |-> FALSE, levels |-> <<>>],
    [present |-> TRUE, levels |-> <<>>],
    [present |-> TRUE, levels |-> <<"high", "low">>] }

LimitSamples == {Undefined, Num(-3), Num(1), Num(50), Num(250)}

FilterSpecs ==
  [ fechaDesde : FechaSamples, fechaHasta : {Undefined, Str(<<"2", "4", "-", "1", "2">>)},
    valorMinimo : ValorSamples, valorMaximo : ValorSamples,
    nombreContrato : NombreSamples, idContrato : IdSamples,
    nivelesRiesgo : NivelesSamples ]

NoFilters ==
  [ fechaDesde |-> Undefined, fechaHasta |-> Undefined, valorMinimo |-> Undefined,
    valorMaximo |-> Undefined, nombreContrato |-> Undefined, idContrato |-> Undefined,
    nivelesRiesgo |-> [present |-> FALSE, levels |-> <<>>] ]

QueryIdle == [pc |-> "idle", filters |-> NoFilters, limit |-> Undefined, out |-> <<>>]

\* a caller holds a FilterSpec and an optional limit
QueryInit ==
  \E f \in FilterSpecs, l \in LimitSamples :
    query = [pc |-> "call", filters |-> f, limit |-> l, out |-> <<>>]

\* the call buildQueryParams(filters, limit) returns
BuildQuery ==
  /\ query.pc = "call"
  /\ query' = [query EXCEPT !.pc = "done",
                            !.out = buildQueryParams(query.filters, query.limit)]
  /\ UNCHANGED <<detail, list, sort, riskFilter, paged, stats, health, dash, panel>>


(***************************************************************************)
(* Errors.  A message is a tuple of tokens: the fixed fragments of the     *)
(* template it was built from and the values interpolated between them.    *)
(***************************************************************************)
Error(name, message) == [name |-> name, message |-> message]

NoError == Error("", <<>>)

\* String.prototype.includes(word), at the granularity of tokens
Includes(message, word) == \E i \in 1..Len(message) : message[i] = word

\* apiConfig.baseUrl and apiConfig.endpoints.contratos
BaseUrl == "http://localhost:8000"

ContratosEndpoint == "/contratos"

\* apiConfig.endpoints.analisisContrato(id)
AnalisisEndpoint(id) == <<"/contratos/">> \o id \o <<"/analisis">>

\* what reading a property of null or undefined throws
NullDereference(what) ==
  Error("TypeError", <<"Cannot", "read", "properties", "of", what>>)

(***************************************************************************)
(* Dates                                                                   *)
(***************************************************************************)
NullDate == [kind |-> "null", time |-> 0]

InvalidDate == [kind |-> "invalid", time |-> 0]

\* a Date; its time value is kept in whole days (getTime() / 86400000: the
\* dates of the model have no time of day)
DateAt(days) == [kind |-> "date", time |-> days]

\* days from 1970-01-01 to the civil date y-m-d (proleptic Gregorian)
DaysFromCivil(y, m, d) ==
  LET yy == IF m <= 2 THEN y - 1 ELSE y
      era == yy \div 400
      yoe == yy - era * 400
      mp == IF m > 2 THEN m - 3 ELSE m + 9
      doy == (153 * mp + 2) \div 5 + d - 1
      doe == yoe * 365 + yoe \div 4 - yoe \div 100 + doy
  IN era * 146097 + doe - 719468

\* new Date(v) for a truthy JSON value: a number is a time value (in the
\* model's unit); a string
\* of the form YYYY-MM-DD is that day at 00:00 UTC (a day past the end of
\* its month rolls over into the next, as V8 reads it); any other string of
\* the model is no date (Invalid Date)
NewDate(v) ==
  IF v.t = "number" THEN DateAt(v.n)
  ELSE LET c == v.s
           shaped == /\ Len(c) = 10
                     /\ c[5] = "-" /\ c[8] = "-"
                     /\ \A i \in {1, 2, 3, 4, 6, 7, 9, 10} : c[i] \in Digits
           y == DigitsVal(SubSeq(c, 1, 4))
           m == DigitsVal(SubSeq(c, 6, 7))
           d == DigitsVal(SubSeq(c, 9, 10))
       IN IF shaped /\ m \in 1..12 /\ d \in 1..31
          THEN DateAt(DaysFromCivil(y, m, d))
          ELSE InvalidDate

(***************************************************************************)
(* Normalizer: normalizeRiskLevel, transformApiContract                    *)
(***************************************************************************)
Alto == <<"A", "l", "t", "o">>

Medio == <<"M", "e", "d", "i", "o">>

Bajo == <<"B", "a", "j", "o">>

normalizeRiskLevel(apiLevel) ==
  CASE apiLevel = Str(Alto) -> "high"
    [] apiLevel = Str(Medio) -> "medium"
    [] apiLevel = Str(Bajo) -> "low"
    [] OTHER -> "low"

\* <Monto>.toString() of a JSON string or number
MontoToString(v) == IF v.t = "string" THEN v.s ELSE NumberToString(v.n)

Zero == [nan |-> FALSE, num |-> 0, den |-> 1]

\* const monto = parseFloat(<Monto>.toString().replace(/[^0-9.-]/g, ''));
\* ... isNaN(monto) ? 0 : monto
parseMonto(v) ==
  LET monto == parseFloat(StripNonNumeric(MontoToString(v)))
  IN IF monto.nan THEN Zero ELSE monto

NoContract ==
  [ id |-> Undefined, nombreContrato |-> Undefined, entidad |-> Undefined,
    monto |-> Zero, fecha |-> NullDate, nivelRiesgo |-> "low",
    probabilidadAnomalia |-> Undefined ]

\* The completion of transformApiContract(apiContract): the Contract it
\* returns, or the TypeError that Monto.toString() throws for a null or
\* undefined Monto.
transformApiContract(apiContract) ==
  IF apiContract.Monto.t \in {"null", "undefined"}
  THEN [threw |-> TRUE, error |-> NullDereference(apiContract.Monto.t), value |-> NoContract]
  ELSE [ threw |-> FALSE, error |-> NoError,
         value |->
           [ id |-> apiContract.Contrato.Codigo,
             nombreContrato |-> apiContract.Contrato.Descripcion,
             entidad |-> apiContract.Entidad,
             monto |-> parseMonto(apiContract.Monto),
             fecha |-> IF Truthy(apiContract.FechaInicio)
                       THEN NewDate(apiContract.FechaInicio) ELSE NullDate,
             nivelRiesgo |-> normalizeRiskLevel(apiContract.NivelRiesgo),
             probabilidadAnomalia |-> apiContract.Anomalia ] ]

(***************************************************************************)
(* API Client, list path: fetchContracts                                   *)
(***************************************************************************)
\* one element of the 'contratos' array as JSON.parse delivers it
RawContract(codigo, entidad, monto, fechaInicio, nivelRiesgo, anomalia) ==
  [ isNull |-> FALSE,
    Contrato |-> [present |-> TRUE, Codigo |-> codigo, Descripcion |-> Str(<<"d">>)],
    Entidad |-> entidad, Monto |-> monto, FechaInicio |-> fechaInicio,
    NivelRiesgo |-> nivelRiesgo, Anomalia |-> anomalia ]

NullElement ==
  [ isNull |-> TRUE,
    Contrato |-> [present |-> FALSE, Codigo |-> Undefined, Descripcion |-> Undefined],
    Entidad |-> Undefined, Monto |-> Undefined, FechaInicio |-> Undefined,
    NivelRiesgo |-> Undefined, Anomalia |-> Undefined ]

\* contract?.Contrato?.Codigo && contract?.Entidad &&
\* contract?.Monto !== undefined && contract?.NivelRiesgo &&
\* contract?.Anomalia !== undefined
isValid(contract) ==
  /\ ~contract.isNull
  /\ contract.Contrato.present /\ Truthy(contract.Contrato.Codigo)
  /\ Truthy(contract.Entidad)
  /\ contract.Monto # Undefined
  /\ Truthy(contract.NivelRiesgo)
  /\ contract.Anomalia # Undefined

\* apiResponse.contratos.filter(contract => isValid)
ValidContracts(contratos) == SelectSeq(contratos, isValid)

\* validContracts.map(transformApiContract): the mapped list, or the error
\* of the first element whose transformation throws
MapTransform(validContracts) ==
  LET done == [i \in 1..Len(validContracts) |-> transformApiContract(validContracts[i])]
      bad == {i \in 1..Len(validContracts) : done[i].threw}
  IN IF bad = {}
     THEN [threw |-> FALSE, error |-> NoError,
           value |-> [i \in 1..Len(validContracts) |-> done[i].value]]
     ELSE [threw |-> TRUE, value |-> <<>>,
           error |-> done[CHOOSE i \in bad : \A j \in bad : i <= j].error]

NoApiResponse == [rollups |-> [totalContratosAnalizados |-> 0, contratosAltoRiesgo |-> 0],
                  contratos |-> <<>>]

Threw(error) ==
  [threw |-> TRUE, error |-> error, apiResponse |-> NoApiResponse, contracts |-> <<>>]

IsOk_anyStatus(status) == status >= 200

\* response.ok
IsOk(status) == status \in 200..299

\* The try block of fetchContracts once fetch has resolved with response
\* and its body has been read.
TryFetchContracts(response, body) ==
  IF ~IsOk(response.status)
  THEN Threw(Error("Error", <<"Error", "HTTP", ":">> \o NumberToString(response.status)
                            \o <<"-", response.statusText, "Detalle:", body.text>>))
  ELSE IF body.kind = "unparsable"
  THEN Threw(Error("SyntaxError", <<"Unexpected", "token", "in", "JSON">>))
  ELSE IF body.kind = "null"
  THEN Threw(NullDereference("null"))
  ELSE IF body.contratos.kind = "object"
  THEN Threw(Error("TypeError", <<"apiResponse.contratos?.slice", "is", "not", "a", "function">>))
  ELSE IF body.contratos.kind # "array"
  THEN Threw(Error("Error", <<"Respuesta del API inválida: falta el array de contratos">>))
  ELSE LET validContracts == ValidContracts(body.contratos.items)
           mapped == MapTransform(validContracts)
       IN IF mapped.threw THEN Threw(mapped.error)
          ELSE [ threw |-> FALSE, error |-> NoError,
                 apiResponse |-> [rollups |-> body.rollups, contratos |-> validContracts],
                 contracts |-> mapped.value ]

\* The catch block of fetchContracts: the error it throws to the caller.
CatchFetchContracts(error) ==
  IF error.name = "TypeError" /\ Includes(error.message, "fetch")
  THEN Error("Error",
             <<"No se puede conectar al servidor API en", BaseUrl,
               "INSTRUCCIONES: Verifica que el servidor API esté ejecutándose en",
               "http://localhost:8000",
               "Prueba la URL manualmente:", BaseUrl, ContratosEndpoint,
               "NEXT_PUBLIC_API_BASE_URL=", BaseUrl>>)
  ELSE IF Includes(error.message, "HTTP")
  THEN Error("Error",
             <<"Error del servidor API (">> \o error.message
             \o <<")", "El servidor está ejecutándose pero devolvió un error.",
                  "URL:", BaseUrl, ContratosEndpoint>>)
  ELSE error

\* TypeError messages of a fetch that could not reach the server, as
\* Chromium ("Failed to fetch") and Node ("fetch failed") word them
TransportMessages == {<<"Failed", "to", "fetch">>, <<"fetch", "failed">>}

Statuses == {200, 404, 500}

StatusText(status) ==
  CASE status = 200 -> "OK" [] status = 404 -> "Not Found"
    [] OTHER -> "Internal Server Error"

StrOf1(c) == Str(<<c>>)

AmountCOP == <<"$", " ", "1", ".", "2", "3", "4", ".", "5", "6", "7">>

GoodA ==
  RawContract(StrOf1("A"), StrOf1("E"), Str(AmountCOP),
              Str(<<"2", "0", "2", "4", "-", "0", "3", "-", "0", "1">>), Str(Alto), Num(80))

GoodB == RawContract(StrOf1("B"), StrOf1("F"), Num(1500), Undefined, Str(Medio), Num(0))

\* the elements a 'contratos' array of the model is made of: two well-formed
\* records and records with one defect each
RawPool ==
  { GoodA, GoodB, NullElement,
    [GoodA EXCEPT !.Contrato = NullElement.Contrato],
    [GoodA EXCEPT !.Entidad = Str(<<>>)],
    [GoodA EXCEPT !.NivelRiesgo = Undefined],
    [GoodA EXCEPT !.Anomalia = Undefined],
    [GoodB EXCEPT !.Monto = Undefined],
    [GoodB EXCEPT !.Monto = Null],
    [GoodB EXCEPT !.Monto = Str(<<"-", "5", "0", "0">>)],
    [GoodB EXCEPT !.Monto = Str(<<"N", "/", "A">>)],
    [GoodA EXCEPT !.Anomalia = Num(150)],
    [GoodB EXCEPT !.NivelRiesgo = Str(<<"X">>)] }

SeqsUpTo(S, n) == UNION {[1..k -> S] : k \in 0..n}

RollupSamples ==
  { [totalContratosAnalizados |-> 0, contratosAltoRiesgo |-> 0],
    [totalContratosAnalizados |-> 4, contratosAltoRiesgo |-> 1] }

JsonBody(kind, contratosKind, items, rollups) ==
  [ kind |-> kind, text |-> "body",
    contratos |-> [kind |-> contratosKind, items |-> items], rollups |-> rollups ]

\* the body of a response that is not 2xx: read as text, never parsed
ErrorBodies == {JsonBody("text", "missing", <<>>, NoApiResponse.rollups)}

\* the bodies a 2xx response of the model carries
Bodies ==
  { JsonBody("unparsable", "missing", <<>>, NoApiResponse.rollups),
    JsonBody("null", "missing", <<>>, NoApiResponse.rollups) }
  \cup { JsonBody("object", k, <<>>, r) : k \in {"missing", "string", "object"},
                                           r \in RollupSamples }
  \cup { JsonBody("object", "array", items, r) :
           items \in SeqsUpTo(RawPool, MaxContratos), r \in RollupSamples }

NoResponse == [status |-> 0, statusText |-> ""]

ListIdle ==
  [ pc |-> "idle", filters |-> NoFilters, limit |-> Undefined, url |-> <<>>,
    response |-> NoResponse, body |-> JsonBody("none", "missing", <<>>, NoApiResponse.rollups),
    out |-> Threw(NoError) ]

ListFilterSamples ==
  {NoFilters, [NoFilters EXCEPT !.valorMinimo = Num(70), !.nombreContrato = Str(<<"a", " ", "&">>)]}

\* fetchContracts(filters, limit) is called: the URL is built and the GET
\* request is issued
ListCall ==
  /\ list.pc = "idle"
  /\ \E f \in ListFilterSamples, l \in {Undefined, Num(250)} :
       /\ (f = NoFilters) = (l = Undefined)
       /\ list' = [list EXCEPT !.pc = "fetching", !.filters = f, !.limit = l,
                     !.url = <<BaseUrl, ContratosEndpoint>> \o buildQueryParams(f, l)]
  /\ UNCHANGED <<detail, query, sort, riskFilter, paged, stats, health, dash, panel>>

\* fetch rejects (no connection): the catch block rethrows
ListFetchRejects ==
  /\ list.pc = "fetching"
  /\ \E m \in TransportMessages :
       list' = [list EXCEPT !.pc = "done",
                  !.out = Threw(CatchFetchContracts(Error("TypeError", m)))]
  /\ UNCHANGED <<detail, query, sort, riskFilter, paged, stats, health, dash, panel>>

\* fetch resolves with a response
ListFetchResolves ==
  /\ list.pc = "fetching"
  /\ \E st \in Statuses :
       list' = [list EXCEPT !.pc = "responded",
                  !.response = [status |-> st, statusText |-> StatusText(st)]]
  /\ UNCHANGED <<detail, query, sort, riskFilter, paged, stats, health, dash, panel>>

\* the body is read (response.text() or response.json()) and the call
\* completes: it returns, or its catch block rethrows
ListReadBody ==
  /\ list.pc = "responded"
  /\ \E b \in IF IsOk(list.response.status) THEN Bodies ELSE ErrorBodies :
       LET tried == TryFetchContracts(list.response, b)
       IN list' = [list EXCEPT !.pc = "done", !.body = b,
                     !.out = IF tried.threw THEN Threw(CatchFetchContracts(tried.error))
                             ELSE tried]
  /\ UNCHANGED <<detail, query, sort, riskFilter, paged, stats, health, dash, panel>>

ListNext == ListCall \/ ListFetchRejects \/ ListFetchResolves \/ ListReadBody

(***************************************************************************)
(* Fallback Provider: getMockContracts(), mockAnalyses and                 *)
(* getMockAnalysisForContract                                              *)
(***************************************************************************)
Analysis(contractId, resumen) ==
  [contractId |-> contractId, resumenEjecutivo |-> resumen, fechaAnalisis |-> DateAt(19000)]

MockContract(id, riesgo) ==
  [ id |-> Str(id), nombreContrato |-> Str(<<"m">>), entidad |-> Str(<<"M">>),
    monto |-> Decimal(900, 1), fecha |-> DateAt(19000), nivelRiesgo |-> riesgo,
    probabilidadAnomalia |-> Num(50) ]

\* getMockContracts().contracts: the locally held example contracts
MockContracts == <<MockContract(<<"M", "1">>, "high"), MockContract(<<"M", "2">>, "low")>>

\* mockAnalyses, as its entries in insertion order: the locally held example
\* analyses, keyed by contract id (the second example contract has none)
MockAnalyses == <<[key |-> Str(<<"M", "1">>), value |-> Analysis(Str(<<"M", "1">>), "mock-1")]>>

MockAnalysisKeys == {MockAnalyses[i].key : i \in 1..Len(MockAnalyses)}

\* mockAnalyses[contractId]
MockAnalysisFor(contractId) ==
  (CHOOSE e \in {MockAnalyses[i] : i \in 1..Len(MockAnalyses)} : e.key = contractId).value

\* Object.values(mockAnalyses)[0]
FirstMockAnalysis == MockAnalyses[1].value

getMockAnalysisForContract(contractId) ==
  LET found == {i \in 1..Len(MockContracts) : MockContracts[i].id = contractId}
  IN IF found = {}
     THEN [contract |-> [MockContracts[1] EXCEPT !.id = contractId],
           analysis |-> [FirstMockAnalysis EXCEPT !.contractId = contractId]]
     ELSE [contract |-> MockContracts[CHOOSE i \in found : \A j \in found : i <= j],
           analysis |-> [(IF contractId \in MockAnalysisKeys
                          THEN MockAnalysisFor(contractId) ELSE FirstMockAnalysis)
                         EXCEPT !.contractId = contractId]]

(***************************************************************************)
(* API Client, detail path: fetchContractAnalysis                          *)
(***************************************************************************)
\* the 'contract' member of a detail body: an object, absent, or a falsy
\* value that is not an object (kind "falsy")
DetailContract(monto, fechaInicio, nivelRiesgo) ==
  [ kind |-> "object", codigo |-> Str(<<"A", "9">>), descripcion |-> Str(<<"d">>),
    entidad |-> Str(<<"E">>), monto |-> monto, fechaInicio |-> fechaInicio,
    nivelRiesgo |-> nivelRiesgo, anomalia |-> Num(80) ]

NotAContract(kind) == [DetailContract(Undefined, Undefined, Undefined) EXCEPT !.kind = kind]

\* the 'analysis' member of a detail body; shapValues is an array or missing
DetailAnalysis(kind, contractId, shapValues) ==
  [ kind |-> kind, contractId |-> contractId, resumenEjecutivo |-> "api",
    shapValues |-> shapValues, fechaAnalisis |-> Str(<<"2", "0", "2", "4", "-", "0", "5", "-", "0", "2">>) ]

DetailThrew(error) ==
  [ threw |-> TRUE, error |-> error, contract |-> NoContract,
    analysis |-> Analysis(Undefined, "") ]

DetailReturned(pair) ==
  [threw |-> FALSE, error |-> NoError, contract |-> pair.contract, analysis |-> pair.analysis]

\* transformApiAnalysis(apiAnalysis); its shapValues.map throws when the
\* analysis carries no shapValues array
transformApiAnalysis(apiAnalysis) ==
  IF apiAnalysis.shapValues # "array"
  THEN [threw |-> TRUE, error |-> NullDereference("undefined"), value |-> Analysis(Undefined, "")]
  ELSE [ threw |-> FALSE, error |-> NoError,
         value |-> [ contractId |-> apiAnalysis.contractId,
                     resumenEjecutivo |-> apiAnalysis.resumenEjecutivo,
                     fechaAnalisis |-> NewDate(apiAnalysis.fechaAnalisis) ] ]

\* The try block of fetchContractAnalysis for a response that is not ok.
DetailHttpError(contractId, response) ==
  IF response.status = 404
  THEN Error("Error", <<"Contrato con ID", contractId.s, "no encontrado">>)
  ELSE Error("Error", <<"Error", "HTTP", ":">> \o NumberToString(response.status)
                      \o <<"-", response.statusText>>)

\* The try block of fetchContractAnalysis once the body of an ok response
\* has been read.
TryFetchContractAnalysis(body) ==
  IF body.kind = "unparsable"
  THEN DetailThrew(Error("SyntaxError", <<"Unexpected", "token", "in", "JSON">>))
  ELSE IF body.kind = "null"
  THEN DetailThrew(NullDereference("null"))
  ELSE IF body.contract.kind = "absent" \/ body.analysis.kind = "absent"
  THEN DetailThrew(NullDereference("undefined"))
  ELSE IF body.contract.kind # "object" \/ body.analysis.kind # "object"
  THEN DetailThrew(Error("Error",
         <<"Respuesta del API inválida: faltan datos del contrato o análisis">>))
  ELSE IF body.contract.monto.t \in {"null", "undefined"}
  THEN DetailThrew(NullDereference(body.contract.monto.t))
  ELSE LET analysis == transformApiAnalysis(body.analysis)
           contract ==
             [ id |-> body.contract.codigo,
               nombreContrato |-> body.contract.descripcion,
               entidad |-> body.contract.entidad,
               monto |-> parseMonto(body.contract.monto),
               fecha |-> IF Truthy(body.contract.fechaInicio)
                         THEN NewDate(body.contract.fechaInicio) ELSE NullDate,
               nivelRiesgo |-> IF body.contract.nivelRiesgo = Str(Alto) THEN "high"
                               ELSE IF body.contract.nivelRiesgo = Str(Medio) THEN "medium"
                               ELSE "low",
               probabilidadAnomalia |-> body.contract.anomalia ]
       IN IF analysis.threw THEN DetailThrew(analysis.error)
          ELSE DetailReturned([contract |-> contract, analysis |-> analysis.value])

CatchFetchContractAnalysis_rethrowNotFound(contractId, error) ==
  IF Includes(error.message, "no encontrado") THEN DetailThrew(error)
  ELSE DetailReturned(getMockAnalysisForContract(contractId))

\* The catch block of fetchContractAnalysis: whatever was thrown, the mock
\* pair for the requested id is returned.
CatchFetchContractAnalysis(contractId, error) ==
  DetailReturned(getMockAnalysisForContract(contractId))

\* contract ids the detail view is opened for: two ids of the local example
\* data and one unknown to it
ContractIds == {Str(<<"M", "1">>), Str(<<"M", "2">>), Str(<<"A", "9">>)}

DetailContracts ==
  {NotAContract("absent"), NotAContract("falsy")}
  \cup { DetailContract(m, f, r) :
           m \in {Str(AmountCOP), Num(1500), Null, Str(<<"N", "/", "A">>)},
           f \in {Undefined, Str(<<"2", "0", "2", "4", "-", "0", "3", "-", "0", "1">>)},
           r \in {Str(Alto), Str(Medio), Str(<<"X">>)} }

DetailAnalyses ==
  { DetailAnalysis("absent", Undefined, "missing"),
    DetailAnalysis("falsy", Undefined, "missing"),
    DetailAnalysis("object", Str(<<"A", "9">>), "array"),
    DetailAnalysis("object", Str(<<"A", "9">>), "missing") }

DetailBody(kind, contract, analysis) ==
  [kind |-> kind, contract |-> contract, analysis |-> analysis]

DetailBodies ==
  { DetailBody(k, NotAContract("absent"), DetailAnalysis("absent", Undefined, "missing")) :
      k \in {"unparsable", "null"} }
  \cup {DetailBody("object", c, a) : c \in DetailContracts, a \in DetailAnalyses}

DetailIdle ==
  [ pc |-> "idle", contractId |-> Undefined, url |-> <<>>, response |-> NoResponse,
    body |-> DetailBody("none", NotAContract("absent"),
                        DetailAnalysis("absent", Undefined, "missing")),
    out |-> DetailThrew(NoError) ]

\* fetchContractAnalysis(contractId) is called and the GET request is issued
DetailCall ==
  /\ detail.pc = "idle"
  /\ \E id \in ContractIds :
       detail' = [detail EXCEPT !.pc = "fetching", !.contractId = id,
                    !.url = <<BaseUrl>> \o AnalisisEndpoint(id.s)]
  /\ UNCHANGED <<list, query, sort, riskFilter, paged, stats, health, dash, panel>>

\* fetch rejects (no connection): the catch block takes over
DetailFetchRejects ==
  /\ detail.pc = "fetching"
  /\ \E m \in TransportMessages :
       detail' = [detail EXCEPT !.pc = "done",
                    !.out = CatchFetchContractAnalysis(detail.contractId, Error("TypeError", m))]
  /\ UNCHANGED <<list, query, sort, riskFilter, paged, stats, health, dash, panel>>

\* fetch resolves with a response; one that is not ok is thrown on at once
DetailFetchResolves ==
  /\ detail.pc = "fetching"
  /\ \E st \in Statuses :
       LET response == [status |-> st, statusText |-> StatusText(st)]
       IN detail' =
            IF IsOk(st)
            THEN [detail EXCEPT !.pc = "responded", !.response = response]
            ELSE [detail EXCEPT !.pc = "done", !.response = response,
                    !.out = CatchFetchContractAnalysis(detail.contractId,
                              DetailHttpError(detail.contractId, response))]
  /\ UNCHANGED <<list, query, sort, riskFilter, paged, stats, health, dash, panel>>

\* response.json() settles and the call completes
DetailReadBody ==
  /\ detail.pc = "responded"
  /\ \E b \in DetailBodies :
       LET tried == TryFetchContractAnalysis(b)
       IN detail' = [detail EXCEPT !.pc = "done", !.body = b,
                       !.out = IF tried.threw
                               THEN CatchFetchContractAnalysis(detail.contractId, tried.error)
                               ELSE tried]
  /\ UNCHANGED <<list, query, sort, riskFilter, paged, stats, health, dash, panel>>

DetailNext == DetailCall \/ DetailFetchRejects \/ DetailFetchResolves \/ DetailReadBody

(***************************************************************************)
(* Sorter: sortContracts of the dashboard page                             *)
(***************************************************************************)
Sign(k) == IF k < 0 THEN -1 ELSE IF k > 0 THEN 1 ELSE 0

\* Collation weights of the characters of the model under the Spanish
\* locale: the primary weight orders digits before letters and letters by
\* base letter (ñ is a letter of its own, between n and o); the secondary
\* weight tells an accented letter from its base; the tertiary weight puts
\* lower case before upper case.
PrimaryWeight(c) ==
  CASE c \in Digits -> DigitVal(c)
    [] c \in {"a", "á", "A"} -> 10
    [] c \in {"b", "B"} -> 11
    [] c \in {"n", "N"} -> 12
    [] c \in {"ñ", "Ñ"} -> 13
    [] c \in {"o", "ó", "O"} -> 14
    [] OTHER -> 15

SecondaryWeight(c) == IF c \in {"á", "ó"} THEN 1 ELSE 0

TertiaryWeight(c) == IF c \in {"A", "B", "N", "Ñ", "O"} THEN 1 ELSE 0

\* lexicographic comparison of two tuples of integers: -1, 0 or 1
RECURSIVE CompareWeights(_, _)
CompareWeights(a, b) ==
  IF a = <<>> /\ b = <<>> THEN 0
  ELSE IF a = <<>> THEN -1
  ELSE IF b = <<>> THEN 1
  ELSE IF Head(a) # Head(b) THEN Sign(Head(a) - Head(b))
  ELSE CompareWeights(Tail(a), Tail(b))

\* a.localeCompare(b, 'es'): by primary weights, then secondary, then
\* tertiary
localeCompare(a, b) ==
  LET p == CompareWeights([i \in 1..Len(a) |-> PrimaryWeight(a[i])],
                          [i \in 1..Len(b) |-> PrimaryWeight(b[i])])
      q == CompareWeights([i \in 1..Len(a) |-> SecondaryWeight(a[i])],
                          [i \in 1..Len(b) |-> SecondaryWeight(b[i])])
      r == CompareWeights([i \in 1..Len(a) |-> TertiaryWeight(a[i])],
                          [i \in 1..Len(b) |-> TertiaryWeight(b[i])])
  IN IF p # 0 THEN p ELSE IF q # 0 THEN q ELSE r

\* a sort key: null, a string, a number num/den, or NaN
NullKey == [kind |-> "null", s |-> <<>>, num |-> 0, den |-> 1]

StringKey(chars) == [kind |-> "string", s |-> chars, num |-> 0, den |-> 1]

NumberKey(num, den) == [kind |-> "number", s |-> <<>>, num |-> num, den |-> den]

NaNKey == [kind |-> "nan", s |-> <<>>, num |-> 0, den |-> 1]

\* the key a JSON value held in a Contract field makes
ValueKey(v) ==
  CASE v.t = "string" -> StringKey(v.s)
    [] v.t = "number" -> NumberKey(v.n, 1)
    [] OTHER -> NullKey

\* a.fecha ? a.fecha.getTime() : 0
FechaKey(fecha) ==
  CASE fecha.kind = "null" -> NumberKey(0, 1)
    [] fecha.kind = "invalid" -> NaNKey
    [] OTHER -> NumberKey(fecha.time, 1)

\* the risk levels ranked by their names instead of their severity
riskOrder_alphabetical(nivelRiesgo) ==
  CASE nivelRiesgo = "high" -> 1 [] nivelRiesgo = "low" -> 2 [] OTHER -> 3

\* const riskOrder = { high: 3, medium: 2, low: 1 }
riskOrder(nivelRiesgo) ==
  CASE nivelRiesgo = "high" -> 3 [] nivelRiesgo = "medium" -> 2 [] OTHER -> 1

\* the switch of the comparator: the value of contract c compared for field
SortKey(c, field) ==
  CASE field = "id" -> ValueKey(c.id)
    [] field = "entidad" -> ValueKey(c.entidad)
    [] field = "monto" -> NumberKey(c.monto.num, c.monto.den)
    [] field = "fecha" -> FechaKey(c.fecha)
    [] field = "nivelRiesgo" -> NumberKey(riskOrder(c.nivelRiesgo), 1)
    [] field = "probabilidadAnomalia" -> ValueKey(c.probabilidadAnomalia)

SortFields == {"id", "entidad", "monto", "fecha", "nivelRiesgo", "probabilidadAnomalia"}

\* The comparator sortContracts hands to Array.prototype.sort, as the sign
\* of its result (a NaN result counts as 0, as the sort reads it).
Comparator(a, b, field, direction) ==
  IF field \notin SortFields THEN 0
  ELSE LET aValue == SortKey(a, field)
           bValue == SortKey(b, field)
           result ==
             IF aValue.kind = "string" /\ bValue.kind = "string"
             THEN localeCompare(aValue.s, bValue.s)
             ELSE IF aValue.kind # "number" \/ bValue.kind # "number" THEN 0
             ELSE Sign(aValue.num * bValue.den - bValue.num * aValue.den)
       IN IF aValue.kind = "null" /\ bValue.kind = "null" THEN 0
          ELSE IF aValue.kind = "null" THEN (IF direction = "asc" THEN 1 ELSE -1)
          ELSE IF bValue.kind = "null" THEN (IF direction = "asc" THEN -1 ELSE 1)
          ELSE IF direction = "asc" THEN result ELSE -result

\* x put into the sorted list s in front of the elements that compare equal
\* to it: a sort that is not stable
RECURSIVE InsertSorted_beforeEquals(_, _, _, _)
InsertSorted_beforeEquals(s, x, field, direction) ==
  IF s = <<>> \/ Comparator(s[Len(s)], x, field, direction) < 0
  THEN Append(s, x)
  ELSE Append(InsertSorted_beforeEquals(SubSeq(s, 1, Len(s) - 1), x, field, direction),
              s[Len(s)])

\* x put into the sorted list s behind every element that does not compare
\* greater than it
RECURSIVE InsertSorted(_, _, _, _)
InsertSorted(s, x, field, direction) ==
  IF s = <<>> \/ Comparator(s[Len(s)], x, field, direction) <= 0
  THEN Append(s, x)
  ELSE Append(InsertSorted(SubSeq(s, 1, Len(s) - 1), x, field, direction), s[Len(s)])

\* Array.prototype.sort with the comparator: a stable sort
RECURSIVE StableSort(_, _, _)
StableSort(contracts, field, direction) ==
  IF contracts = <<>> THEN <<>>
  ELSE InsertSorted(StableSort(SubSeq(contracts, 1, Len(contracts) - 1), field, direction),
                    contracts[Len(contracts)], field, direction)

\* field is "none" when sortContracts is given no field
sortContracts(contracts, field, direction) ==
  IF field = "none" THEN contracts ELSE StableSort(contracts, field, direction)

SortContract(id, entidad, monto, fecha, riesgo, anomalia) ==
  [ id |-> Str(id), nombreContrato |-> Str(<<"d">>), entidad |-> Str(entidad),
    monto |-> Decimal(monto, 1), fecha |-> fecha, nivelRiesgo |-> riesgo,
    probabilidadAnomalia |-> Num(anomalia) ]

\* the contracts a working set of the model is made of
SortPool ==
  { SortContract(<<"a", "1">>, <<"Ñ", "o">>, 100, NullDate, "high", 80),
    SortContract(<<"a", "2">>, <<"n", "o">>, 50, DateAt(19783), "low", 20),
    SortContract(<<"á", "1">>, <<"o", "b">>, 100, DateAt(19000), "medium", 80),
    SortContract(<<"b", "1">>, <<"n", "o">>, 0, NullDate, "high", 20) }

SortIdle == [pc |-> "idle", contracts |-> <<>>, field |-> "none", direction |-> "asc", out |-> <<>>]

\* a caller holds a working set, an optional sort field and a direction
SortInit ==
  \E cs \in SeqsUpTo(SortPool, MaxSortLen), f \in SortFields \cup {"none"},
     d \in {"asc", "desc"} :
    sort = [pc |-> "call", contracts |-> cs, field |-> f, direction |-> d, out |-> <<>>]

\* the call sortContracts(contracts, field, direction) returns
SortCall ==
  /\ sort.pc = "call"
  /\ sort' = [sort EXCEPT !.pc = "done",
                !.out = sortContracts(sort.contracts, sort.field, sort.direction)]
  /\ UNCHANGED <<detail, list, query, riskFilter, paged, stats, health, dash, panel>>

(***************************************************************************)
(* Client-side risk filter of loadContracts (dashboard page)               *)
(***************************************************************************)
\* the filter applied whether or not the list of levels is empty
filteredContracts_emptyKeepsNone(contracts, nivelesRiesgo) ==
  IF nivelesRiesgo.present
  THEN SelectSeq(contracts,
                 LAMBDA contract :
                   \E i \in 1..Len(nivelesRiesgo.levels) :
                     nivelesRiesgo.levels[i] = contract.nivelRiesgo)
  ELSE contracts

\* let filteredContracts = contracts;
\* if (filters.nivelesRiesgo && filters.nivelesRiesgo.length > 0)
\*   filteredContracts = contracts.filter(c => filters.nivelesRiesgo.includes(c.nivelRiesgo))
filteredContracts(contracts, nivelesRiesgo) ==
  IF nivelesRiesgo.present /\ Len(nivelesRiesgo.levels) > 0
  THEN SelectSeq(contracts,
                 LAMBDA contract :
                   \E i \in 1..Len(nivelesRiesgo.levels) :
                     nivelesRiesgo.levels[i] = contract.nivelRiesgo)
  ELSE contracts

\* filters.nivelesRiesgo as the filter panel and its callers can set it
RiskLevelLists ==
  { [present |-> FALSE, levels |-> <<>>] } \cup
  { [present |-> TRUE, levels |-> l] :
      l \in { <<>>, <<"high">>, <<"medium">>, <<"low">>, <<"high", "low">>,
              <<"medium", "high">>, <<"high", "medium", "low">> } }

\* a working set of 5 high, 3 medium and 2 low contracts
TenContracts ==
  LET h1 == SortContract(<<"a", "1">>, <<"Ñ", "o">>, 100, NullDate, "high", 80)
      h2 == SortContract(<<"b", "1">>, <<"n", "o">>, 0, NullDate, "high", 20)
      m == SortContract(<<"á", "1">>, <<"o", "b">>, 100, DateAt(19000), "medium", 80)
      l == SortContract(<<"a", "2">>, <<"n", "o">>, 50, DateAt(19783), "low", 20)
  IN <<h1, m, h2, l, h1, m, h2, h1, l, m>>

RiskFilterIdle ==
  [pc |-> "idle", contracts |-> <<>>, nivelesRiesgo |-> [present |-> FALSE, levels |-> <<>>],
   out |-> <<>>, again |-> <<>>]

\* loadContracts holds the contracts fetchContracts returned and the
\* FilterSpec's nivelesRiesgo
RiskFilterInit ==
  \E cs \in SeqsUpTo(SortPool, MaxSortLen) \cup {TenContracts}, n \in RiskLevelLists :
    riskFilter = [pc |-> "call", contracts |-> cs, nivelesRiesgo |-> n,
                  out |-> <<>>, again |-> <<>>]

\* the filter runs over the fetched contracts
RiskFilterApply ==
  /\ riskFilter.pc = "call"
  /\ riskFilter' = [riskFilter EXCEPT !.pc = "done",
                      !.out = filteredContracts(riskFilter.contracts, riskFilter.nivelesRiesgo)]
  /\ UNCHANGED <<detail, list, query, sort, paged, stats, health, dash, panel>>

\* the filter runs once more, with the same spec, over its own result
RiskFilterReapply ==
  /\ riskFilter.pc = "done"
  /\ riskFilter' = [riskFilter EXCEPT !.pc = "again",
                      !.again = filteredContracts(riskFilter.out, riskFilter.nivelesRiesgo)]
  /\ UNCHANGED <<detail, list, query, sort, paged, stats, health, dash, panel>>

RiskFilterNext == RiskFilterApply \/ RiskFilterReapply

(***************************************************************************)
(* Paginator: paginateData                                                 *)
(***************************************************************************)
\* the quotient rounded down instead of up
MathCeil_floor(n, d) == n \div d

\* Math.ceil(n / d) for an integer n and d > 0
MathCeil(n, d) == -((-n) \div d)

\* Array.prototype.slice(start, end): a negative index counts from the end
\* of the array, and both indices are clamped to 0..length
slice(s, start, end) ==
  LET len == Len(s)
      k == IF start < 0 THEN Max(len + start, 0) ELSE Min(start, len)
      final == IF end < 0 THEN Max(len + end, 0) ELSE Min(end, len)
  IN SubSeq(s, k + 1, final)

\* pages that share their boundary element
paginateData_overlapping(data, page, pageSize) ==
  LET totalItems == Len(data)
      totalPages == MathCeil(totalItems, pageSize)
      startIndex == (page - 1) * pageSize
      endIndex == startIndex + pageSize + 1
  IN [ data |-> slice(data, startIndex, endIndex),
       pagination |-> [page |-> page, pageSize |-> pageSize, totalItems |-> totalItems],
       hasNextPage |-> page < totalPages,
       hasPrevPage |-> page > 1,
       totalPages |-> totalPages ]

\* paginateData(data, page, pageSize)
paginateData(data, page, pageSize) ==
  LET totalItems == Len(data)
      totalPages == MathCeil(totalItems, pageSize)
      startIndex == (page - 1) * pageSize
      endIndex == startIndex + pageSize
      paginatedData == slice(data, startIndex, endIndex)
  IN [ data |-> paginatedData,
       pagination |-> [page |-> page, pageSize |-> pageSize, totalItems |-> totalItems],
       hasNextPage |-> page < totalPages,
       hasPrevPage |-> page > 1,
       totalPages |-> totalPages ]

\* the lists of the model: the elements are told apart by their position in
\* the source list
PageData == { [i \in 1..n |-> i] : n \in (0..MaxItems) \cup {23} }

PageSizes == (1..MaxPageSize) \cup {10}

Pages == (-MaxPage)..(MaxPage + 1)

NoPage ==
  [ data |-> <<>>, pagination |-> [page |-> 0, pageSize |-> 0, totalItems |-> 0],
    hasNextPage |-> FALSE, hasPrevPage |-> FALSE, totalPages |-> 0 ]

\* first is the page of the first call, seen the data of the calls so far,
\* one after the other
PagedIdle ==
  [pc |-> "idle", data |-> <<>>, page |-> 1, pageSize |-> 1, first |-> 1,
   result |-> NoPage, seen |-> <<>>]

\* a caller holds a list, a page number and a page size
PagedInit ==
  \E d \in PageData, p \in Pages, ps \in PageSizes :
    paged = [pc |-> "call", data |-> d, page |-> p, pageSize |-> ps, first |-> p,
             result |-> NoPage, seen |-> <<>>]

\* the call paginateData(data, page, pageSize) returns
Paginate ==
  /\ paged.pc = "call"
  /\ LET result == paginateData(paged.data, paged.page, paged.pageSize)
     IN paged' = [paged EXCEPT !.pc = "done", !.result = result,
                               !.seen = paged.seen \o result.data]
  /\ UNCHANGED <<detail, list, query, sort, riskFilter, stats, health, dash, panel>>

\* told there is a next page, the caller asks for it
PaginateFollowing ==
  /\ paged.pc = "done"
  /\ paged.result.hasNextPage
  /\ paged' = [paged EXCEPT !.pc = "call", !.page = paged.page + 1]
  /\ UNCHANGED <<detail, list, query, sort, riskFilter, stats, health, dash, panel>>

PagedNext == Paginate \/ PaginateFollowing

(***************************************************************************)
(* Stats Aggregator: getDashboardStats                                     *)
(***************************************************************************)
\* num / den as JavaScript divides two integers: 0/0 is NaN, n/0 is an
\* infinity, anything else the exact quotient (kept over a positive
\* denominator)
Quotient(num, den) ==
  IF den = 0
  THEN [kind |-> IF num = 0 THEN "nan" ELSE "infinity", num |-> Sign(num), den |-> 0]
  ELSE IF den < 0 THEN [kind |-> "finite", num |-> -num, den |-> -den]
       ELSE [kind |-> "finite", num |-> num, den |-> den]

\* Math.round(q): the integer nearest to q, a half rounded up; NaN and the
\* infinities are returned as they are
MathRound(q) ==
  IF q.kind # "finite" THEN q
  ELSE [kind |-> "finite", num |-> (2 * q.num + q.den) \div (2 * q.den), den |-> 1]

\* a + b for two decimals
AddDecimal(a, b) ==
  IF a.nan \/ b.nan THEN NaN
  ELSE Decimal(a.num * b.den + b.num * a.den, a.den * b.den)

\* contracts.reduce((sum, c) => sum + c.monto, 0)
RECURSIVE SumMonto(_)
SumMonto(contracts) ==
  IF contracts = <<>> THEN Zero
  ELSE AddDecimal(SumMonto(SubSeq(contracts, 1, Len(contracts) - 1)),
                  contracts[Len(contracts)].monto)

\* contracts.reduce((sum, c) => sum + c.probabilidadAnomalia, 0)
RECURSIVE SumAnomalia(_)
SumAnomalia(contracts) ==
  IF contracts = <<>> THEN 0
  ELSE SumAnomalia(SubSeq(contracts, 1, Len(contracts) - 1))
         + contracts[Len(contracts)].probabilidadAnomalia.n

\* the aggregate computed without its two guards
getDashboardStats_unguarded(contracts, apiResponse) ==
  LET total == Len(contracts)
      highRisk == Len(SelectSeq(contracts, LAMBDA c : c.nivelRiesgo = "high"))
      totalAmount == SumMonto(contracts)
      avgAnomaly == Quotient(SumAnomalia(contracts), Len(contracts))
  IN [ total |-> total, highRisk |-> highRisk, totalAmount |-> totalAmount,
       avgAnomaly |-> MathRound(avgAnomaly),
       totalContratosAnalizados |-> apiResponse.totalContratosAnalizados,
       contratosAltoRiesgo |-> apiResponse.contratosAltoRiesgo,
       montoTotalCOP |-> apiResponse.montoTotalCOP,
       porcentajeAltoRiesgo |->
         Quotient(apiResponse.contratosAltoRiesgo * 100,
                  apiResponse.totalContratosAnalizados) ]

\* getDashboardStats(contracts, apiResponse)
getDashboardStats(contracts, apiResponse) ==
  LET total == Len(contracts)
      highRisk == Len(SelectSeq(contracts, LAMBDA c : c.nivelRiesgo = "high"))
      totalAmount == SumMonto(contracts)
      avgAnomaly == IF Len(contracts) > 0
                    THEN Quotient(SumAnomalia(contracts), Len(contracts))
                    ELSE Quotient(0, 1)
  IN [ total |-> total, highRisk |-> highRisk, totalAmount |-> totalAmount,
       avgAnomaly |-> MathRound(avgAnomaly),
       totalContratosAnalizados |-> apiResponse.totalContratosAnalizados,
       contratosAltoRiesgo |-> apiResponse.contratosAltoRiesgo,
       montoTotalCOP |-> apiResponse.montoTotalCOP,
       porcentajeAltoRiesgo |->
         IF apiResponse.totalContratosAnalizados > 0
         THEN Quotient(apiResponse.contratosAltoRiesgo * 100,
                       apiResponse.totalContratosAnalizados)
         ELSE Quotient(0, 1) ]

\* the working sets of the model are made of the contracts of SortPool and
\* of a contract with an amount and an anomaly probability that make sums
\* and averages fractional
StatsPool ==
  SortPool \cup
  { [ SortContract(<<"c", "1">>, <<"o">>, 0, NullDate, "medium", 85)
        EXCEPT !.monto = Decimal(1234, 1000) ] }

\* the rollups of a ContractsApiResponse
StatsRollups ==
  { [totalContratosAnalizados |-> t, contratosAltoRiesgo |-> a, montoTotalCOP |-> 1000] :
      <<t, a>> \in {<<0, 0>>, <<0, 3>>, <<4, 1>>, <<7, 2>>} }

NoStats ==
  [ total |-> 0, highRisk |-> 0, totalAmount |-> Zero, avgAnomaly |-> Quotient(0, 1),
    totalContratosAnalizados |-> 0, contratosAltoRiesgo |-> 0, montoTotalCOP |-> 0,
    porcentajeAltoRiesgo |-> Quotient(0, 1) ]

StatsIdle ==
  [ pc |-> "idle", contracts |-> <<>>,
    apiResponse |-> [totalContratosAnalizados |-> 0, contratosAltoRiesgo |-> 0,
                     montoTotalCOP |-> 0],
    out |-> NoStats ]

\* a caller holds a working set and the rollups of the API response
StatsInit ==
  \E cs \in SeqsUpTo(StatsPool, MaxSortLen), r \in StatsRollups :
    stats = [pc |-> "call", contracts |-> cs, apiResponse |-> r, out |-> NoStats]

\* the call getDashboardStats(contracts, apiResponse) returns
StatsCall ==
  /\ stats.pc = "call"
  /\ stats' = [stats EXCEPT !.pc = "done",
                 !.out = getDashboardStats(stats.contracts, stats.apiResponse)]
  /\ UNCHANGED <<detail, list, query, sort, riskFilter, paged, health, dash, panel>>

(***************************************************************************)
(* Health Check: checkApiHealth (utils/debugDashboard).  Time is counted in *)
(* whole seconds since startTime.                                          *)
(***************************************************************************)
\* setTimeout(() => controller.abort(), 10000)
Deadline == 10

\* what fetch rejects with once its signal is aborted
AbortError == Error("AbortError", <<"This operation was aborted">>)

\* what response.json() rejects with when the body is not JSON
JsonSyntaxError == Error("SyntaxError", <<"Unexpected token", "<", "in JSON">>)

\* what the promise checkApiHealth returned settles with
HealthResult(reachable, responseTime, error) ==
  [ threw |-> FALSE, reachable |-> reachable, responseTime |-> responseTime,
    error |-> error, thrown |-> NoError ]

HealthThrew(error) ==
  [ threw |-> TRUE, reachable |-> FALSE, responseTime |-> 0, error |-> <<>>,
    thrown |-> error ]

NoHealthResult == HealthResult(FALSE, 0, <<>>)

\* a catch block that lets the cancellation through
CatchCheckApiHealth_rethrowAbort(error, responseTime) ==
  IF error.name = "AbortError" THEN HealthThrew(error)
  ELSE HealthResult(FALSE, responseTime,
                    IF error.name # "" THEN error.message ELSE <<"Error desconocido">>)

\* the catch block: error instanceof Error ? error.message : 'Error desconocido'
CatchCheckApiHealth(error, responseTime) ==
  HealthResult(FALSE, responseTime,
               IF error.name # "" THEN error.message ELSE <<"Error desconocido">>)

\* return { reachable: false, responseTime, error: `HTTP ${status}: ${statusText}` }
HealthHttpError(status, responseTime) ==
  HealthResult(FALSE, responseTime, <<"HTTP ", status, ": ", StatusText(status)>>)

\* timer: the deadline timer (none, pending, cleared, fired); request: the
\* fetch (none, pending, aborted, failed, answered); body: the response body
\* (none, unread, reading, read, failed)
HealthIdle ==
  [ pc |-> "idle", elapsed |-> 0, timer |-> "none", request |-> "none",
    body |-> "none", status |-> 0, result |-> NoHealthResult ]

\* lines 46-59: the clock starts, the deadline timer is set, the request
\* is issued
HealthCall ==
  /\ health.pc = "idle"
  /\ health' = [health EXCEPT !.pc = "waiting", !.timer = "pending",
                              !.request = "pending"]
  /\ UNCHANGED <<detail, list, query, sort, riskFilter, paged, stats, dash, panel>>

\* a second passes; a pending timer fires no later than its deadline
HealthTick ==
  /\ health.pc # "idle"
  /\ health.elapsed < MaxElapsed
  /\ health.timer = "pending" => health.elapsed < Deadline
  /\ health' = [health EXCEPT !.elapsed = health.elapsed + 1]
  /\ UNCHANGED <<detail, list, query, sort, riskFilter, paged, stats, dash, panel>>

\* the deadline timer fires: controller.abort() cancels the request, or the
\* body read, that is still going on
HealthTimerFires ==
  /\ health.timer = "pending"
  /\ health.elapsed >= Deadline
  /\ health' = [health EXCEPT
                  !.timer = "fired",
                  !.request = IF health.request = "pending" THEN "aborted"
                              ELSE health.request,
                  !.body = IF health.body = "reading" THEN "failed" ELSE health.body]
  /\ UNCHANGED <<detail, list, query, sort, riskFilter, paged, stats, dash, panel>>

\* the aborted fetch rejects; the catch block returns
HealthAbortRejects ==
  /\ health.pc = "waiting"
  /\ health.request = "aborted"
  /\ health' = [health EXCEPT !.pc = "returned",
                  !.result = CatchCheckApiHealth(AbortError, health.elapsed)]
  /\ UNCHANGED <<detail, list, query, sort, riskFilter, paged, stats, dash, panel>>

\* fetch rejects with a transport failure; the catch block returns
HealthFetchRejects ==
  /\ health.pc = "waiting"
  /\ health.request = "pending"
  /\ \E m \in TransportMessages :
       health' = [health EXCEPT !.pc = "returned", !.request = "failed",
                    !.result = CatchCheckApiHealth(Error("TypeError", m), health.elapsed)]
  /\ UNCHANGED <<detail, list, query, sort, riskFilter, paged, stats, dash, panel>>

\* fetch resolves with the response's status line and headers: the timer is
\* cleared (line 61); a status that is not 2xx is returned as it is, with the
\* body left unread; otherwise the body is read (line 73)
HealthFetchResolves ==
  /\ health.pc = "waiting"
  /\ health.request = "pending"
  /\ \E status \in Statuses :
       health' = [health EXCEPT
                    !.request = "answered", !.status = status,
                    !.timer = IF health.timer = "pending" THEN "cleared" ELSE health.timer,
                    !.pc = IF IsOk(status) THEN "reading" ELSE "returned",
                    !.body = IF IsOk(status) THEN "reading" ELSE "unread",
                    !.result = IF IsOk(status) THEN health.result
                               ELSE HealthHttpError(status, health.elapsed)]
  /\ UNCHANGED <<detail, list, query, sort, riskFilter, paged, stats, dash, panel>>

\* the body arrives whole and parses as JSON
HealthBodyParsed ==
  /\ health.pc = "reading"
  /\ health.body = "reading"
  /\ health' = [health EXCEPT !.pc = "returned", !.body = "read",
                  !.result = HealthResult(TRUE, health.elapsed, <<>>)]
  /\ UNCHANGED <<detail, list, query, sort, riskFilter, paged, stats, dash, panel>>

\* response.json() rejects: the body is not JSON, the connection broke
\* while it was read, or the read was aborted
HealthBodyRejects ==
  /\ health.pc = "reading"
  /\ \E error \in IF health.body = "failed" THEN {AbortError}
                  ELSE {JsonSyntaxError} \cup
                       {Error("TypeError", m) : m \in TransportMessages} :
       health' = [health EXCEPT !.pc = "returned", !.body = "failed",
                    !.result = CatchCheckApiHealth(error, health.elapsed)]
  /\ UNCHANGED <<detail, list, query, sort, riskFilter, paged, stats, dash, panel>>

HealthNext ==
  \/ HealthCall \/ HealthTick \/ HealthTimerFires \/ HealthAbortRejects
  \/ HealthFetchRejects \/ HealthFetchResolves \/ HealthBodyParsed
  \/ HealthBodyRejects

(***************************************************************************)
(* Dashboard page: DashboardPage (state, loadContracts effect, handlers,   *)
(* view)                                                                   *)
(***************************************************************************)
\* the FilterSpecs the filter drawer applies
DashFilters ==
  { NoFilters,
    [NoFilters EXCEPT !.nivelesRiesgo = [present |-> TRUE, levels |-> <<"high">>]] }

\* the page sizes and pages the pagination control asks for, and the
\* columns whose header can be clicked
DashPageSizes == {2, 10}

DashPages == 1..2

DashSortFields == {"monto", "nivelRiesgo"}

\* what fetchContracts resolves with: the normalised contracts and the
\* rollups of the response
DashResponses ==
  LET h == SortContract(<<"a", "1">>, <<"Ñ", "o">>, 100, NullDate, "high", 80)
      l == SortContract(<<"a", "2">>, <<"n", "o">>, 50, DateAt(19783), "low", 20)
      m == SortContract(<<"á", "1">>, <<"o", "b">>, 100, DateAt(19000), "medium", 80)
  IN { [ contracts |-> <<m, h, l>>,
         apiResponse |-> [totalContratosAnalizados |-> 4, contratosAltoRiesgo |-> 1,
                          montoTotalCOP |-> 1000] ],
       [ contracts |-> <<l>>,
         apiResponse |-> [totalContratosAnalizados |-> 0, contratosAltoRiesgo |-> 0,
                          montoTotalCOP |-> 0] ] }

\* what fetchContracts rejects with
DashFailures == {<<"Error HTTP: ", 500>>}

NoRollups == [totalContratosAnalizados |-> 0, contratosAltoRiesgo |-> 0, montoTotalCOP |-> 0]

\* The state of the page after construction (the useState initial values),
\* before its effect has run.  error = <<>> stands for null, hasApiResponse
\* and hasResult tell whether apiResponse and paginatedResult are non-null.
\* runs holds the loadContracts calls in flight, oldest first, each with the
\* values its closure captured.  History: startBit flips whenever a run
\* starts; latest is the outcome of the run started last; lastCompleted is
\* the outcome of the run that completed last; sortOdd tells whether the
\* active sort field was selected an odd number of times in a row.
DashIdle ==
  [ mounted |-> FALSE,
    allContracts |-> <<>>, hasApiResponse |-> FALSE, apiResponse |-> NoRollups,
    loading |-> TRUE, error |-> <<>>, filters |-> NoFilters,
    pagination |-> [page |-> 1, pageSize |-> 10, totalItems |-> 0],
    hasResult |-> FALSE, paginatedResult |-> NoPage,
    sortField |-> "none", sortDirection |-> "asc",
    runs |-> <<>>,
    startBit |-> FALSE,
    latest |-> [outcome |-> "none", allContracts |-> <<>>, apiResponse |-> NoRollups],
    lastCompleted |-> "none", sortOdd |-> FALSE ]

\* what the component renders: the loading view (line 320), the error view
\* with its retry button (line 343), or the page with table and controls
View(d) ==
  IF d.loading THEN "loading"
  ELSE IF d.error # <<>> \/ ~d.hasApiResponse THEN "error"
  ELSE "table"

\* the card "% Alto Riesgo" of the page (lines 390 and 529-533): the value
\* handed to AnimatedNumber, computed anew from the fields of stats
PorcentajeCard(d) ==
  IF d.hasApiResponse
  THEN LET s == getDashboardStats(d.allContracts, d.apiResponse)
       IN Quotient(s.contratosAltoRiesgo * 100, s.totalContratosAnalizados)
  ELSE Quotient(0, 1)

\* an effect that depends on the whole pagination state
Deps_wholePagination(d) == <<d.filters, d.pagination, d.sortField, d.sortDirection>>

\* the dependencies of the effect
Deps(d) == <<d.filters, d.pagination.pageSize, d.sortField, d.sortDirection>>

\* the effect runs loadContracts up to its first await: setLoading(true),
\* setError(null), with filters, pageSize and sort order captured
StartRun(d) ==
  [d EXCEPT !.loading = TRUE, !.error = <<>>,
            !.runs = Append(d.runs,
                            [ filters |-> d.filters, pageSize |-> d.pagination.pageSize,
                              sortField |-> d.sortField,
                              sortDirection |-> d.sortDirection,
                              phase |-> "fetching", last |-> TRUE ]),
            !.startBit = ~d.startBit,
            !.latest = [outcome |-> "none", allContracts |-> <<>>, apiResponse |-> NoRollups]]

\* the runs in flight told that a newer run exists
Superseded(runs) == [i \in 1..Len(runs) |-> [runs[i] EXCEPT !.last = FALSE]]

\* React runs the effect again after a commit in which a dependency changed
Commit(before, after) ==
  IF Deps(after) # Deps(before)
  THEN StartRun([after EXCEPT !.runs = Superseded(after.runs)])
  ELSE after

\* a commit may start a run only while the model has room for it
HasRoom(before, after) ==
  Deps(after) # Deps(before) => Len(after.runs) < MaxInFlight

\* a run that has stored its results reads none of its captured values
\* again
Loaded(run) ==
  [ filters |-> NoFilters, pageSize |-> 0, sortField |-> "none", sortDirection |-> "asc",
    phase |-> "loaded", last |-> run.last ]

RemoveAt(s, i) == SubSeq(s, 1, i - 1) \o SubSeq(s, i + 1, Len(s))

\* the effect runs when the page has mounted
DashEffectMount ==
  /\ ~dash.mounted
  /\ dash' = StartRun([dash EXCEPT !.mounted = TRUE])
  /\ UNCHANGED <<detail, list, query, sort, riskFilter, paged, stats, health, panel>>

\* a development build in strict mode runs the effect of a freshly mounted
\* component a second time, before anything else has happened
DashEffectRepeats ==
  /\ dash.mounted
  /\ Len(dash.runs) = 1 /\ dash.runs[1].phase = "fetching"
  /\ dash.lastCompleted = "none"
  /\ Len(dash.runs) < MaxInFlight
  /\ dash' = StartRun([dash EXCEPT !.runs = Superseded(dash.runs)])
  /\ UNCHANGED <<detail, list, query, sort, riskFilter, paged, stats, health, panel>>

\* lines 159-213 of run i: fetchContracts has resolved; the contracts are
\* filtered by risk level and sorted, and the working set, the rollups, the
\* pagination state (page 1, the captured page size) and page 1 are stored
DashRunSucceeds ==
  \E i \in 1..Len(dash.runs), r \in DashResponses :
    LET run == dash.runs[i]
        sortedContracts ==
          sortContracts(filteredContracts(r.contracts, run.filters.nivelesRiesgo),
                        run.sortField, run.sortDirection)
        after ==
          [dash EXCEPT
             !.allContracts = sortedContracts,
             !.hasApiResponse = TRUE, !.apiResponse = r.apiResponse,
             !.pagination = [page |-> 1, pageSize |-> run.pageSize,
                             totalItems |-> Len(sortedContracts)],
             !.hasResult = TRUE,
             !.paginatedResult = paginateData(sortedContracts, 1, run.pageSize),
             !.runs[i] = Loaded(run),
             !.latest = IF run.last
                        THEN [outcome |-> "ok", allContracts |-> sortedContracts,
                              apiResponse |-> r.apiResponse]
                        ELSE dash.latest]
    IN /\ run.phase = "fetching"
       /\ HasRoom(dash, after)
       /\ dash' = Commit(dash, after)
  /\ UNCHANGED <<detail, list, query, sort, riskFilter, paged, stats, health, panel>>

\* lines 216 and 232-234 of run i: the closing diagnostics are over and the
\* finally block clears the loading flag
DashRunFinishes ==
  /\ \E i \in 1..Len(dash.runs) :
       /\ dash.runs[i].phase = "loaded"
       /\ dash' = [dash EXCEPT !.loading = FALSE, !.runs = RemoveAt(dash.runs, i),
                               !.lastCompleted = "ok"]
  /\ UNCHANGED <<detail, list, query, sort, riskFilter, paged, stats, health, panel>>

\* a run whose catch block forgets the error
DashFailure_errorNotSet(d, i, message) ==
  [d EXCEPT !.loading = FALSE, !.runs = RemoveAt(d.runs, i),
            !.lastCompleted = "failed",
            !.latest = IF d.runs[i].last
                       THEN [outcome |-> "failed", allContracts |-> <<>>,
                             apiResponse |-> NoRollups]
                       ELSE d.latest]

\* lines 218-234 of run i: setError(errorMessage), then setLoading(false)
DashFailure(d, i, message) ==
  [d EXCEPT !.error = message, !.loading = FALSE, !.runs = RemoveAt(d.runs, i),
            !.lastCompleted = "failed",
            !.latest = IF d.runs[i].last
                       THEN [outcome |-> "failed", allContracts |-> <<>>,
                             apiResponse |-> NoRollups]
                       ELSE d.latest]

\* fetchContracts of run i has rejected
DashRunFails ==
  /\ \E i \in 1..Len(dash.runs), message \in DashFailures :
       /\ dash.runs[i].phase = "fetching"
       /\ dash' = DashFailure(dash, i, message)
  /\ UNCHANGED <<detail, list, query, sort, riskFilter, paged, stats, health, panel>>

\* a page change that keeps the page it was asked to leave
PageChanged_resultOnly(d, newPage) ==
  IF d.allContracts = <<>> THEN d
  ELSE [d EXCEPT !.paginatedResult =
                   paginateData(d.allContracts, newPage, d.pagination.pageSize)]

\* handlePageChange(newPage)
PageChanged(d, newPage) ==
  IF d.allContracts = <<>> THEN d
  ELSE [d EXCEPT !.pagination.page = newPage,
                 !.paginatedResult =
                   paginateData(d.allContracts, newPage, d.pagination.pageSize)]

\* the pagination control, rendered with the table once there is a page
\* result, asks for a page
HandlePageChange ==
  /\ View(dash) = "table" /\ dash.hasResult
  /\ \E newPage \in DashPages :
       LET after == PageChanged(dash, newPage)
       IN HasRoom(dash, after) /\ dash' = Commit(dash, after)
  /\ UNCHANGED <<detail, list, query, sort, riskFilter, paged, stats, health, panel>>

\* a page-size change that stays on the current page
PageSizeChanged_keepsPage(d, newPageSize) ==
  IF d.allContracts = <<>> THEN d
  ELSE [d EXCEPT !.pagination.pageSize = newPageSize,
                 !.paginatedResult =
                   paginateData(d.allContracts, d.pagination.page, newPageSize)]

\* handlePageSizeChange(newPageSize)
PageSizeChanged(d, newPageSize) ==
  IF d.allContracts = <<>> THEN d
  ELSE [d EXCEPT !.pagination.pageSize = newPageSize, !.pagination.page = 1,
                 !.paginatedResult = paginateData(d.allContracts, 1, newPageSize)]

\* the pagination control asks for a page size
HandlePageSizeChange ==
  /\ View(dash) = "table" /\ dash.hasResult
  /\ \E newPageSize \in DashPageSizes :
       LET after == PageSizeChanged(dash, newPageSize)
       IN HasRoom(dash, after) /\ dash' = Commit(dash, after)
  /\ UNCHANGED <<detail, list, query, sort, riskFilter, paged, stats, health, panel>>

\* a header click that always sorts ascending
Sorted_alwaysAsc(d, field) ==
  [d EXCEPT !.sortField = field, !.sortDirection = "asc",
            !.sortOdd = IF d.sortField = field THEN ~d.sortOdd ELSE TRUE]

\* handleSort(field)
Sorted(d, field) ==
  IF d.sortField = field
  THEN [d EXCEPT !.sortDirection = IF d.sortDirection = "asc" THEN "desc" ELSE "asc",
                 !.sortOdd = ~d.sortOdd]
  ELSE [d EXCEPT !.sortField = field, !.sortDirection = "asc", !.sortOdd = TRUE]

\* a column header of the table is clicked
HandleSort ==
  /\ View(dash) = "table"
  /\ \E field \in DashSortFields :
       LET after == Sorted(dash, field)
       IN HasRoom(dash, after) /\ dash' = Commit(dash, after)
  /\ UNCHANGED <<detail, list, query, sort, riskFilter, paged, stats, health, panel>>

\* handleApplyFilters(newFilters): the drawer applies an edited FilterSpec
HandleApplyFilters ==
  /\ View(dash) = "table"
  /\ \E newFilters \in DashFilters \ {dash.filters} :
       LET after == [dash EXCEPT !.filters = newFilters]
       IN HasRoom(dash, after) /\ dash' = Commit(dash, after)
  /\ UNCHANGED <<detail, list, query, sort, riskFilter, paged, stats, health, panel>>

\* the retry button of the error view: window.location.reload() builds the
\* page anew
DashReload ==
  /\ dash.mounted /\ View(dash) = "error"
  /\ dash' = [DashIdle EXCEPT !.startBit = dash.startBit]
  /\ UNCHANGED <<detail, list, query, sort, riskFilter, paged, stats, health, panel>>

DashNext ==
  \/ DashEffectMount \/ DashEffectRepeats \/ DashRunSucceeds \/ DashRunFinishes
  \/ DashRunFails \/ HandlePageChange \/ HandlePageSizeChange \/ HandleSort
  \/ HandleApplyFilters \/ DashReload

(***************************************************************************)
(* Filter panel: ContractFilters.  The filters object is a function from   *)
(* its own keys to their values.                                           *)
(***************************************************************************)
TextKeys == {"fechaDesde", "fechaHasta", "nombreContrato", "idContrato"}

ValorKeys == {"valorMinimo", "valorMaximo"}

\* the value of nivelesRiesgo: an array of levels
Levels(levels) == [t |-> "array", s |-> levels, n |-> 0]

\* updateFilter(key, value): onFiltersChange({...filters, [key]: value})
updateFilter(filters, key, value) ==
  [k \in (DOMAIN filters) \cup {key} |-> IF k = key THEN value ELSE filters[k]]

\* Object.keys(filters).length
ObjectKeysLength(filters) == Cardinality(DOMAIN filters)

\* the panel is handed the empty FilterSpec {}
PanelIdle == [filters |-> <<>>]

\* text is typed into an empty text or date input
PanelTypeText ==
  /\ \E key \in TextKeys :
       /\ key \in DOMAIN panel.filters => panel.filters[key] = Undefined
       /\ panel' = [filters |-> updateFilter(panel.filters, key, Str(<<"a", "b", "c">>))]
  /\ UNCHANGED <<detail, list, query, sort, riskFilter, paged, stats, health, dash>>

\* a text or date input is emptied: e.target.value || undefined
PanelClearText ==
  /\ \E key \in TextKeys :
       /\ key \in DOMAIN panel.filters /\ panel.filters[key] # Undefined
       /\ panel' = [filters |-> updateFilter(panel.filters, key, Undefined)]
  /\ UNCHANGED <<detail, list, query, sort, riskFilter, paged, stats, health, dash>>

\* handleValorMinimo / handleValorMaximo: the digits typed are parsed and
\* numericValue || undefined is stored, so an amount of 0 and an emptied
\* input both store undefined
PanelTypeValor ==
  /\ \E key \in ValorKeys, numericValue \in {0, 70} :
       /\ numericValue = 0 =>
            (key \in DOMAIN panel.filters => panel.filters[key] # Undefined)
       /\ panel' = [filters |-> updateFilter(panel.filters, key,
                                   IF numericValue # 0 THEN Num(numericValue)
                                   ELSE Undefined)]
  /\ UNCHANGED <<detail, list, query, sort, riskFilter, paged, stats, health, dash>>

\* handleRiskLevelToggle(level)
PanelToggleRisk ==
  /\ \E level \in {"high", "medium", "low"} :
       LET currentLevels ==
             IF "nivelesRiesgo" \in DOMAIN panel.filters
                  /\ panel.filters["nivelesRiesgo"] # Undefined
             THEN panel.filters["nivelesRiesgo"].s ELSE <<>>
           newLevels ==
             IF \E i \in 1..Len(currentLevels) : currentLevels[i] = level
             THEN SelectSeq(currentLevels, LAMBDA l : l # level)
             ELSE Append(currentLevels, level)
       IN panel' = [filters |-> updateFilter(panel.filters, "nivelesRiesgo",
                                   IF Len(newLevels) > 0 THEN Levels(newLevels)
                                   ELSE Undefined)]
  /\ UNCHANGED <<detail, list, query, sort, riskFilter, paged, stats, health, dash>>

\* resetFilters: onFiltersChange({})
PanelReset ==
  /\ panel.filters # <<>>
  /\ panel' = [filters |-> <<>>]
  /\ UNCHANGED <<detail, list, query, sort, riskFilter, paged, stats, health, dash>>

PanelNext ==
  PanelTypeText \/ PanelClearText \/ PanelTypeValor \/ PanelToggleRisk \/ PanelReset

(***************************************************************************)
(* Reading a query string back, for the properties of buildQueryParams     *)
(***************************************************************************)
\* positions of the parameter names of a query string: right after the
\* leading '?' and right after every '&'
NamePositions(qs) == {i \in 2..Len(qs) : qs[i - 1] \in {"?", "&"}}

ParamNames(qs) == {qs[i] : i \in NamePositions(qs)}

\* the serialised value of parameter name: the tokens between its '=' and
\* the next '&' (or the end)
ParamValue(qs, name) ==
  LET i == CHOOSE k \in NamePositions(qs) : qs[k] = name
      stops == {k \in (i + 1)..Len(qs) : qs[k] = "&"} \cup {Len(qs) + 1}
      j == CHOOSE k \in stops : \A m \in stops : k <= m
  IN SubSeq(qs, i + 2, j - 1)

HasText(v) == v.t = "string" /\ v.s # <<>>

\* the parameters the rules of the Query Builder call for, a valor_* one
\* whenever its filter value is present
NamesWhenPresent(f, l) ==
  (IF l # Undefined THEN {"limit"} ELSE {})
  \cup (IF HasText(f.fechaDesde) THEN {"fecha_desde"} ELSE {})
  \cup (IF HasText(f.fechaHasta) THEN {"fecha_hasta"} ELSE {})
  \cup (IF f.valorMinimo # Undefined THEN {"valor_minimo"} ELSE {})
  \cup (IF f.valorMaximo # Undefined THEN {"valor_maximo"} ELSE {})
  \cup (IF HasText(f.nombreContrato) /\ Len(f.nombreContrato.s) >= 3
        THEN {"nombre_contrato"} ELSE {})
  \cup (IF HasText(f.idContrato) THEN {"id_contrato"} ELSE {})

\* the same, a valor_* one only when its filter value is present and >= 0
NamesWhenValid(f, l) ==
  NamesWhenPresent(f, l)
  \ ((IF f.valorMinimo # Undefined /\ f.valorMinimo.n < 0 THEN {"valor_minimo"} ELSE {})
     \cup (IF f.valorMaximo # Undefined /\ f.valorMaximo.n < 0 THEN {"valor_maximo"} ELSE {}))

ClampedLimit(l) == IF l.n < 1 THEN 1 ELSE IF l.n > 100 THEN 100 ELSE l.n

QueryDone == query.pc = "done"

\* C8 as stated: the query string holds exactly limit (iff given, clamped to
\* [1,100]), each of fecha_desde, fecha_hasta, valor_minimo, valor_maximo,
\* id_contrato iff its value is present, nombre_contrato iff the name has
\* length >= 3, and nivelesRiesgo never changes it.
C8_Original ==
  QueryDone =>
    /\ ParamNames(query.out) = NamesWhenPresent(query.filters, query.limit)
    /\ Cardinality(NamePositions(query.out)) = Cardinality(ParamNames(query.out))
    /\ query.limit # Undefined =>
         ParamValue(query.out, "limit") = NumberToString(ClampedLimit(query.limit))

\* C8 amended: as C8, except that valor_minimo / valor_maximo appear iff the
\* value is present and >= 0 (a negative amount is omitted); every text
\* parameter appears iff its value is a non-empty string.  Each parameter
\* appears once, limit carries the limit clamped to [1,100], and the query
\* string is the one built for the same spec without nivelesRiesgo.
C8_ExactParams ==
  QueryDone =>
    /\ ParamNames(query.out) = NamesWhenValid(query.filters, query.limit)
    /\ Cardinality(NamePositions(query.out)) = Cardinality(ParamNames(query.out))
    /\ (query.out = <<>>) = (NamesWhenValid(query.filters, query.limit) = {})
    /\ query.limit # Undefined =>
         ParamValue(query.out, "limit") = NumberToString(ClampedLimit(query.limit))
    /\ \A nv \in NivelesSamples :
         buildQueryParams([query.filters EXCEPT !.nivelesRiesgo = nv], query.limit)
           = query.out

C8_Witness ==
  /\ QueryDone
  /\ query.limit = Num(250)
  /\ query.filters.nivelesRiesgo.levels # <<>>
  /\ query.filters.nombreContrato = Str(<<"a", " ", "&">>)
  /\ ParamNames(query.out) = {"limit", "fecha_desde", "fecha_hasta", "valor_minimo",
                              "valor_maximo", "nombre_contrato", "id_contrato"}

\* C9 as stated: a present, negative valorMinimo / valorMaximo is still
\* emitted, with that negative value.
C9_Original ==
  QueryDone =>
    /\ (query.filters.valorMinimo # Undefined /\ query.filters.valorMinimo.n < 0) =>
         /\ "valor_minimo" \in ParamNames(query.out)
         /\ ParamValue(query.out, "valor_minimo") = NumberToString(query.filters.valorMinimo.n)
    /\ (query.filters.valorMaximo # Undefined /\ query.filters.valorMaximo.n < 0) =>
         /\ "valor_maximo" \in ParamNames(query.out)
         /\ ParamValue(query.out, "valor_maximo") = NumberToString(query.filters.valorMaximo.n)

\* C9 amended: buildQueryParams filters negative range input out: a present,
\* negative valorMinimo / valorMaximo emits no valor_minimo / valor_maximo
\* parameter; a present value >= 0 (0 included) is emitted in decimal.
C9_NegativeOmitted ==
  QueryDone =>
    /\ \A p \in {<<"valor_minimo", query.filters.valorMinimo>>,
                 <<"valor_maximo", query.filters.valorMaximo>>} :
         /\ (p[2] # Undefined /\ p[2].n < 0) => p[1] \notin ParamNames(query.out)
         /\ (p[2] # Undefined /\ p[2].n >= 0) =>
              /\ p[1] \in ParamNames(query.out)
              /\ ParamValue(query.out, p[1]) = NumberToString(p[2].n)

C9_Witness ==
  /\ QueryDone
  /\ query.filters.valorMinimo = Num(-5)
  /\ query.filters.valorMaximo = Num(0)
  /\ ParamNames(query.out) = {"valor_maximo"}


(***************************************************************************)
(* Properties of the list path                                             *)
(***************************************************************************)
ListDone == list.pc = "done"

\* fetch never resolved: the call ended on a transport failure
ListTransportFailure == ListDone /\ list.response = NoResponse

ListHasArray == list.body.kind = "object" /\ list.body.contratos.kind = "array"

\* a is a subsequence of b
RECURSIVE IsSubSeq(_, _)
IsSubSeq(a, b) ==
  IF a = <<>> THEN TRUE
  ELSE IF b = <<>> THEN FALSE
  ELSE IF Head(a) = Head(b) THEN IsSubSeq(Tail(a), Tail(b))
  ELSE IsSubSeq(a, Tail(b))

WellFormed(r) ==
  /\ ~r.isNull
  /\ r.Contrato.present /\ HasText(r.Contrato.Codigo)
  /\ HasText(r.Entidad)
  /\ (HasText(r.Monto) \/ r.Monto.t = "number")
  /\ r.NivelRiesgo \in {Str(Alto), Str(Medio), Str(Bajo)}
  /\ r.Anomalia.t = "number"

\* C4: whatever mix of well-formed and malformed records the 'contratos'
\* array holds, fetchContracts succeeds and returns exactly the well-formed
\* records, normalized, in their original relative order.
C4_PartialResult ==
  (ListDone /\ list.response.status \in 200..299 /\ ListHasArray) =>
    /\ ~list.out.threw
    /\ list.out.apiResponse.contratos = SelectSeq(list.body.contratos.items, WellFormed)
    /\ Len(list.out.contracts) = Len(list.out.apiResponse.contratos)
    /\ \A i \in 1..Len(list.out.contracts) :
         list.out.contracts[i].id = list.out.apiResponse.contratos[i].Contrato.Codigo

\* C5: every Contract fetchContracts returns has monto >= 0 and
\* 0 <= probabilidadAnomalia <= 100.
C5_RangeInvariants ==
  (ListDone /\ ~list.out.threw) =>
    \A i \in 1..Len(list.out.contracts) :
      LET c == list.out.contracts[i]
      IN /\ c.monto.num >= 0
         /\ c.probabilidadAnomalia.t = "number"
         /\ c.probabilidadAnomalia.n \in 0..100

\* the message names the URL of the list endpoint
NamesListUrl(message) ==
  \E i \in 1..(Len(message) - 1) :
    message[i] = BaseUrl /\ message[i + 1] = ContratosEndpoint

\* C6: every failure fetchContracts raises carries a message that identifies
\* the target URL of the list request.
C6_FailureNamesUrl ==
  (ListDone /\ list.out.threw) => NamesListUrl(list.out.error.message)

\* a raw amount made of a currency symbol, spaces and digit groups
\* separated by '.'
CurrencyShaped(v) ==
  /\ v.t = "string"
  /\ \A i \in 1..Len(v.s) : v.s[i] \in Digits \cup {"$", " ", "."}
  /\ \E i \in 1..Len(v.s) : v.s[i] \in Digits

IntegerOfDigits(v) == Decimal(DigitsVal(SelectSeq(v.s, LAMBDA c : c \in Digits)), 1)

\* C7: a raw amount made of a currency symbol, spaces and digit groups
\* separated by '.' normalizes to the integer formed by its digits
\* ("$ 1.234.567" to 1234567), and one with nothing parseable to 0.
C7_AmountDigits ==
  (ListDone /\ ~list.out.threw) =>
    \A i \in 1..Len(list.out.contracts) :
      LET raw == list.out.apiResponse.contratos[i].Monto
          monto == list.out.contracts[i].monto
      IN /\ CurrencyShaped(raw) => monto = IntegerOfDigits(raw)
         /\ (raw.t = "string" /\ StripNonNumeric(raw.s) = <<>>) => monto = Zero


(***************************************************************************)
(* Properties of the detail path                                           *)
(***************************************************************************)
DetailDone == detail.pc = "done"

\* the detail call failed: transport failure, status outside 2xx,
\* unparsable body, or a body without its contract or analysis object
DetailFailure ==
  \/ detail.response = NoResponse
  \/ detail.response.status \notin 200..299
  \/ detail.body.kind \in {"unparsable", "null"}
  \/ detail.body.contract.kind # "object"
  \/ detail.body.analysis.kind # "object"

\* pair is made of locally held example data: one of the example contracts
\* (its id possibly rewritten) with one of the example analyses (its
\* contractId possibly rewritten)
IsFallbackPair(pair) ==
  /\ \E i \in 1..Len(MockContracts) :
       [pair.contract EXCEPT !.id = MockContracts[i].id] = MockContracts[i]
  /\ \E i \in 1..Len(MockAnalyses) :
       [pair.analysis EXCEPT !.contractId = MockAnalyses[i].value.contractId]
         = MockAnalyses[i].value

C2_NotFoundSurfaces ==
  (DetailDone /\ detail.response.status = 404) =>
    /\ detail.out.threw
    /\ Includes(detail.out.error.message, "no encontrado")


(***************************************************************************)
(* Properties of the Sorter                                                *)
(***************************************************************************)
SortDone == sort.pc = "done"

\* C10: sorted by 'fecha', a contract without a date stands after every
\* dated contract in ascending direction and before every dated contract in
\* descending direction.
C10_MissingDatesLast ==
  (SortDone /\ sort.field = "fecha") =>
    \A i, j \in 1..Len(sort.out) :
      (sort.out[i].fecha.kind = "null" /\ sort.out[j].fecha.kind = "date") =>
        IF sort.direction = "asc" THEN j < i ELSE i < j

\* the value of the field a contract is sorted by
FieldValue(c, field) ==
  CASE field = "id" -> c.id
    [] field = "entidad" -> c.entidad
    [] field = "monto" -> c.monto
    [] field = "fecha" -> c.fecha
    [] field = "nivelRiesgo" -> c.nivelRiesgo
    [] OTHER -> c.probabilidadAnomalia

\* the contracts of a list whose sorted-by field holds value v, in list order
WithValue(contracts, field, v) ==
  SelectSeq(contracts, LAMBDA c : FieldValue(c, field) = v)

\* C11: sortContracts is stable: for every supported field and both
\* directions, the contracts that hold the same value in the sorted-by field
\* stand in the output in the relative order they had in the input.
C11_Stable ==
  (SortDone /\ sort.field \in SortFields) =>
    \A k \in 1..Len(sort.contracts) :
      LET v == FieldValue(sort.contracts[k], sort.field)
      IN WithValue(sort.out, sort.field, v) = WithValue(sort.contracts, sort.field, v)

\* amounts [100, 50, 100, 0] sorted descending came out as [100, 100, 50, 0]
\* with the two contracts of amount 100 in input order
C11_Witness ==
  /\ SortDone /\ sort.field = "monto" /\ sort.direction = "desc"
  /\ [i \in 1..Len(sort.contracts) |-> sort.contracts[i].monto.num] = <<100, 50, 100, 0>>
  /\ sort.contracts[1].id # sort.contracts[3].id
  /\ sort.out = <<sort.contracts[1], sort.contracts[3], sort.contracts[2], sort.contracts[4]>>

\* severity of a risk level: high above medium above low
Severity(nivelRiesgo) ==
  IF nivelRiesgo = "high" THEN 3 ELSE IF nivelRiesgo = "medium" THEN 2 ELSE 1

\* a stands at or before b in the ascending order of the field; a missing
\* date is in order with every date
InOrder(a, b, field) ==
  CASE field \in {"id", "entidad"} ->
         localeCompare(FieldValue(a, field).s, FieldValue(b, field).s) <= 0
    [] field = "monto" -> a.monto.num * b.monto.den <= b.monto.num * a.monto.den
    [] field = "fecha" ->
         (a.fecha.kind = "date" /\ b.fecha.kind = "date") => a.fecha.time <= b.fecha.time
    [] field = "nivelRiesgo" -> Severity(a.nivelRiesgo) <= Severity(b.nivelRiesgo)
    [] OTHER -> a.probabilidadAnomalia.n <= b.probabilidadAnomalia.n

\* the number of times x occurs in list s
Count(s, x) == Cardinality({i \in 1..Len(s) : s[i] = x})

IsPermutation(s, t) ==
  /\ Len(s) = Len(t)
  /\ \A i \in 1..Len(s) : Count(s, s[i]) = Count(t, s[i])

RiskFilterDone == riskFilter.pc \in {"done", "again"}

\* the risk level is one of the requested levels
Requested(nivelRiesgo) ==
  \E i \in 1..Len(riskFilter.nivelesRiesgo.levels) :
    riskFilter.nivelesRiesgo.levels[i] = nivelRiesgo

\* t holds the contracts of s whose level is requested, and no others, in
\* the order of s
RECURSIVE KeepsRequested(_, _)
KeepsRequested(s, t) ==
  IF s = <<>> THEN t = <<>>
  ELSE IF Requested(Head(s).nivelRiesgo)
       THEN t # <<>> /\ Head(t) = Head(s) /\ KeepsRequested(Tail(s), Tail(t))
       ELSE KeepsRequested(Tail(s), t)

\* C13: the client-side risk filter keeps a contract iff its nivelRiesgo is
\* one of filters.nivelesRiesgo, keeps every contract when that list is absent
\* or empty, preserves the relative order of the kept contracts, and applied
\* again with the same spec returns the same list.
C13_RiskFilter ==
  /\ RiskFilterDone =>
       IF riskFilter.nivelesRiesgo.present /\ riskFilter.nivelesRiesgo.levels # <<>>
       THEN KeepsRequested(riskFilter.contracts, riskFilter.out)
       ELSE riskFilter.out = riskFilter.contracts
  /\ riskFilter.pc = "again" => riskFilter.again = riskFilter.out

\* the filter {high} over 5 high, 3 medium and 2 low contracts gave exactly
\* the 5 high contracts, and gave them again when applied a second time
C13_Witness ==
  /\ riskFilter.pc = "again"
  /\ riskFilter.contracts = TenContracts
  /\ riskFilter.nivelesRiesgo = [present |-> TRUE, levels |-> <<"high">>]
  /\ Len(riskFilter.out) = 5
  /\ \A i \in 1..5 : riskFilter.out[i].nivelRiesgo = "high"

(***************************************************************************)
(* Properties of the Paginator                                             *)
(***************************************************************************)
PagedDone == paged.pc = "done"

\* C14: for every list, page >= 1 and pageSize >= 1, paginateData returns
\* data of length min(pageSize, max(0, totalItems - (page-1)*pageSize)), and
\* the data of pages 1..totalPages, one after the other, is the input list.
C14_PagesPartition ==
  (PagedDone /\ paged.page >= 1) =>
    /\ Len(paged.result.data) =
         Min(paged.pageSize,
             Max(0, Len(paged.data) - (paged.page - 1) * paged.pageSize))
    /\ (paged.first = 1 /\ paged.page >= paged.result.totalPages) =>
         paged.seen = paged.data

\* 23 elements in pages of 10: page 3, the last, holds 3 elements and the
\* three pages together are the list
C14_Witness ==
  /\ PagedDone /\ Len(paged.data) = 23 /\ paged.pageSize = 10
  /\ paged.first = 1 /\ paged.page = 3
  /\ Len(paged.result.data) = 3 /\ ~paged.result.hasNextPage
  /\ paged.result.totalPages = 3
  /\ paged.seen = paged.data

\* C15: paginateData returns empty data exactly when the page is outside
\* 1..totalPages (page 0 and negative pages included); inside that range the
\* data is not empty.
C15_EmptyIffOutOfRange ==
  PagedDone =>
    ((paged.result.data = <<>>) <=> (paged.page \notin 1..paged.result.totalPages))

\* C16: totalPages = 0 iff totalItems = 0, otherwise totalPages =
\* ceil(totalItems / pageSize); hasNextPage = (page < totalPages);
\* hasPrevPage = (page > 1); pagination.totalItems is the input length.
C16_PageMetadata ==
  (PagedDone /\ paged.page >= 1) =>
    LET r == paged.result
        n == Len(paged.data)
    IN /\ r.pagination.totalItems = n
       /\ (r.totalPages = 0) <=> (n = 0)
       /\ (r.totalPages - 1) * paged.pageSize < n \/ n = 0
       /\ n <= r.totalPages * paged.pageSize
       /\ r.hasNextPage <=> (paged.page < r.totalPages)
       /\ r.hasPrevPage <=> (paged.page > 1)

\* 5 elements in pages of 2: page 2 of 3 has a page before and a page after
C16_Witness ==
  /\ PagedDone /\ Len(paged.data) = 5 /\ paged.pageSize = 2 /\ paged.page = 2
  /\ paged.result.totalPages = 3
  /\ paged.result.hasNextPage /\ paged.result.hasPrevPage

(***************************************************************************)
(* Properties of the Stats Aggregator                                      *)
(***************************************************************************)
StatsDone == stats.pc = "done"

\* integer r is a nearest integer to sum / n
NearestTo(r, sum, n) ==
  /\ 2 * (r * n - sum) <= n
  /\ 2 * (sum - r * n) <= n

\* the sum of the amounts of a working set as a fraction over 1000
RECURSIVE MilliSum(_)
MilliSum(contracts) ==
  IF contracts = <<>> THEN 0
  ELSE (Head(contracts).monto.num * 1000) \div Head(contracts).monto.den
         + MilliSum(Tail(contracts))

\* C17: getDashboardStats never yields an undefined number: avgAnomaly is
\* the average anomaly probability rounded to the nearest integer and 0 for
\* an empty working set; porcentajeAltoRiesgo is contratosAltoRiesgo /
\* totalContratosAnalizados * 100 and 0 when totalContratosAnalizados = 0;
\* total, highRisk and totalAmount are the count, the count of 'high'
\* contracts and the sum of monto over the working set.
C17_StatsDefined ==
  StatsDone =>
    LET o == stats.out
        cs == stats.contracts
        n == Len(cs)
        r == stats.apiResponse
    IN /\ o.avgAnomaly.kind = "finite" /\ o.avgAnomaly.den = 1
       /\ o.porcentajeAltoRiesgo.kind = "finite"
       /\ ~o.totalAmount.nan
       /\ IF n = 0 THEN o.avgAnomaly.num = 0
          ELSE NearestTo(o.avgAnomaly.num,
                         SumAnomalia(cs), n)
       /\ IF r.totalContratosAnalizados = 0 THEN o.porcentajeAltoRiesgo.num = 0
          ELSE o.porcentajeAltoRiesgo.num * r.totalContratosAnalizados
                 = r.contratosAltoRiesgo * 100 * o.porcentajeAltoRiesgo.den
       /\ o.total = n
       /\ o.highRisk = Cardinality({i \in 1..n : cs[i].nivelRiesgo = "high"})
       /\ o.totalAmount.num * 1000 = MilliSum(cs) * o.totalAmount.den

\* the aggregate of an empty working set with rollups 0 of 0 came out as
\* zeros
C17_Witness ==
  /\ StatsDone /\ stats.contracts = <<>>
  /\ stats.apiResponse.totalContratosAnalizados = 0
  /\ stats.out.avgAnomaly = Quotient(0, 1)
  /\ stats.out.porcentajeAltoRiesgo = Quotient(0, 1)

(***************************************************************************)
(* Properties of the Health Check                                          *)
(***************************************************************************)
HealthReturned == health.pc = "returned"

HealthRunning == health.pc \in {"waiting", "reading"}

\* C18: checkApiHealth never raises to its caller: a status that is not 2xx,
\* a transport failure, a cancelled request and a body that is not JSON each
\* give {reachable: false, error: <reason>}; only a 2xx response whose body
\* parsed as JSON gives reachable = true.
C18_HealthNeverRaises ==
  HealthReturned =>
    /\ ~health.result.threw
    /\ health.result.reachable <=> (IsOk(health.status) /\ health.body = "read")
    /\ ~health.result.reachable => health.result.error # <<>>

\* the deadline cancelled the request and the caller was handed
\* {reachable: false, error: <the cancellation>}
C18_Witness ==
  /\ HealthReturned /\ health.request = "aborted"
  /\ ~health.result.threw /\ ~health.result.reachable
  /\ health.result.error = AbortError.message

\* C19: once checkApiHealth has returned, on whichever path, neither its
\* request nor its 10-second deadline timer is still pending.
C19_ReleasedOnReturn ==
  HealthReturned => (health.timer # "pending" /\ health.request # "pending")

\* C20: a running checkApiHealth eventually returns, even if the server
\* never finishes answering: the deadline cancels the call whether the
\* response or its body is being waited for.
C20_ReturnsByDeadline == HealthRunning ~> HealthReturned

(***************************************************************************)
(* Properties of the dashboard page                                        *)
(***************************************************************************)
\* what a pipeline run is computed from
Inputs(d) == <<d.filters, d.sortField, d.sortDirection, d.pagination.pageSize>>

\* a step in which a pipeline run starts
RunStarts == dash'.startBit # dash.startBit

RunStores ==
  /\ Len(dash'.runs) >= Len(dash.runs)
  /\ \E i \in 1..Len(dash.runs) :
       dash.runs[i].phase = "fetching" /\ dash'.runs[i].phase = "loaded"

\* C22: whenever pageSize changes, the page is reset to 1 and the page
\* result is page 1 computed with the new pageSize; and when a pipeline run
\* stores its results, the page is 1 and the page result is page 1 computed
\* with the pageSize then held.
C22_PageSizeResetsPage ==
  [][ (dash'.pagination.pageSize # dash.pagination.pageSize \/ RunStores) =>
        /\ dash'.pagination.page = 1
        /\ dash'.hasResult =>
             /\ dash'.paginatedResult =
                  paginateData(dash'.allContracts, 1, dash'.pagination.pageSize)
             /\ dash'.paginatedResult.pagination.page = 1
             /\ dash'.paginatedResult.pagination.pageSize = dash'.pagination.pageSize
    ]_vars

\* handlePageSizeChange(2) has just acted on a working set of three: page 1
\* of size 2 is shown while the run it triggered is still fetching
C22_Witness ==
  /\ dash.pagination = [page |-> 1, pageSize |-> 2, totalItems |-> 3]
  /\ Len(dash.allContracts) = 3
  /\ dash.paginatedResult = paginateData(dash.allContracts, 1, 2)
  /\ Len(dash.runs) = 1 /\ dash.runs[1].phase = "fetching" /\ dash.runs[1].pageSize = 2

\* C23: when the pipeline run that completed last has failed and no run is
\* in progress, the page renders the error view with its retry button and
\* not the table, whatever rows are held from an earlier successful run.
C23_FailureShowsErrorView ==
  (dash.lastCompleted = "failed" /\ dash.runs = <<>>) =>
    /\ View(dash) = "error" /\ dash.error # <<>>
    /\ dash.mounted

\* a run failed after an earlier run had stored rows
C23_Witness ==
  /\ dash.lastCompleted = "failed" /\ dash.runs = <<>>
  /\ dash.allContracts # <<>> /\ dash.hasResult
  /\ View(dash) = "error"

\* C24: the high-risk percentage the page presents is the aggregator's
\* guarded value: contratosAltoRiesgo / totalContratosAnalizados * 100 when
\* totalContratosAnalizados > 0, and 0, never an undefined number, when the
\* API reports totalContratosAnalizados = 0.
C24_CardShowsGuardedValue ==
  View(dash) = "table" =>
    /\ PorcentajeCard(dash).kind = "finite"
    /\ PorcentajeCard(dash) =
         getDashboardStats(dash.allContracts, dash.apiResponse).porcentajeAltoRiesgo

\* C26: selecting the active sort field keeps the field and flips the
\* direction, selecting another field makes it the active field with
\* direction 'asc', so every selection changes the sort order; and the
\* direction of the active field is 'asc' iff the field has been selected an
\* odd number of times in a row.
C26_SortStateMachine ==
  [][ /\ HandleSort =>
           <<dash'.sortField, dash'.sortDirection>> # <<dash.sortField, dash.sortDirection>>
      /\ (dash'.mounted
            /\ <<dash'.sortField, dash'.sortDirection>>
                 # <<dash.sortField, dash.sortDirection>>) =>
           \/ /\ dash'.sortField = dash.sortField
              /\ dash'.sortDirection # dash.sortDirection
              /\ dash'.sortOdd = ~dash.sortOdd
           \/ /\ dash'.sortField # dash.sortField
              /\ dash'.sortField \in DashSortFields
              /\ dash'.sortDirection = "asc" /\ dash'.sortOdd
      /\ dash'.sortField # "none" =>
           (dash'.sortDirection = "asc" <=> dash'.sortOdd) ]_vars

\* the active field was selected twice in a row
C26_Witness ==
  /\ dash.sortField = "monto" /\ dash.sortDirection = "desc" /\ ~dash.sortOdd

\* C27: once no run is in flight, the working set, the rollups and the page
\* result held by the page are those of the run that was started last (when
\* that run succeeded), whatever the order in which the responses arrived.
C27_LastStartedWins ==
  (dash.runs = <<>> /\ dash.latest.outcome = "ok") =>
    /\ dash.allContracts = dash.latest.allContracts
    /\ dash.apiResponse = dash.latest.apiResponse
    /\ dash.hasResult
    /\ dash.paginatedResult.data =
         paginateData(dash.latest.allContracts, dash.pagination.page,
                      dash.pagination.pageSize).data

\* C28: once the page has mounted, the loading flag is true exactly in the
\* states in which a pipeline run is in flight, so the table and its
\* controls are never rendered while a run is pending.
C28_LoadingWhileInFlight ==
  dash.mounted =>
    /\ dash.loading <=> dash.runs # <<>>
    /\ dash.runs # <<>> => View(dash) = "loading"

\* C29: whenever paginatedResult is non-null it agrees with the working set
\* and the pagination state: its totalItems is allContracts.length, its page
\* and pageSize are those of pagination, and its data is the slice of
\* allContracts for that page and pageSize.
C29_PageResultConsistent ==
  dash.hasResult =>
    /\ dash.paginatedResult.pagination.totalItems = Len(dash.allContracts)
    /\ dash.paginatedResult.pagination.page = dash.pagination.page
    /\ dash.paginatedResult.pagination.pageSize = dash.pagination.pageSize
    /\ dash.paginatedResult.data =
         slice(dash.allContracts, (dash.pagination.page - 1) * dash.pagination.pageSize,
               (dash.pagination.page - 1) * dash.pagination.pageSize
                 + dash.pagination.pageSize)

\* the second page of a working set of three, two to a page, after a failed
\* run
C29_Witness ==
  /\ dash.hasResult /\ Len(dash.allContracts) = 3
  /\ dash.pagination.page = 2 /\ dash.pagination.pageSize = 2
  /\ Len(dash.paginatedResult.data) = 1
  /\ dash.lastCompleted = "ok" /\ dash.runs = <<>>

(***************************************************************************)
(* Properties of the filter panel                                          *)
(***************************************************************************)
\* the fields of a filters object that hold a value
FieldsWithValue(filters) == {k \in DOMAIN filters : filters[k] # Undefined}

\* C25: after any sequence of edits in the filter panel, the active-filter
\* count Object.keys(filters).length is the number of filter fields that
\* hold a value (so a field set and then cleared does not count).
C25_CountIsFieldsWithValue ==
  ObjectKeysLength(panel.filters) = Cardinality(FieldsWithValue(panel.filters))

(***************************************************************************)
(* Specifications                                                          *)
(***************************************************************************)
AllIdle == detail = DetailIdle /\ list = ListIdle /\ query = QueryIdle /\ sort = SortIdle /\ riskFilter = RiskFilterIdle /\ paged = PagedIdle /\ stats = StatsIdle /\ health = HealthIdle /\ dash = DashIdle /\ panel = PanelIdle

\* the detail path: fetchContractAnalysis
DetailSpecInit == AllIdle

SpecDetail == DetailSpecInit /\ [][DetailNext]_vars

\* the list path: fetchContracts
ListSpecInit == AllIdle

SpecList == ListSpecInit /\ [][ListNext]_vars

\* the Query Builder: buildQueryParams over every FilterSpec and limit of
\* the model
QuerySpecInit == detail = DetailIdle /\ list = ListIdle /\ sort = SortIdle /\ QueryInit /\ riskFilter = RiskFilterIdle /\ paged = PagedIdle /\ stats = StatsIdle /\ health = HealthIdle /\ dash = DashIdle /\ panel = PanelIdle

SpecQuery == QuerySpecInit /\ [][BuildQuery]_vars

\* the Sorter: sortContracts over every working set, field and direction of
\* the model
SortSpecInit == detail = DetailIdle /\ list = ListIdle /\ query = QueryIdle /\ SortInit /\ riskFilter = RiskFilterIdle /\ paged = PagedIdle /\ stats = StatsIdle /\ health = HealthIdle /\ dash = DashIdle /\ panel = PanelIdle

SpecSort == SortSpecInit /\ [][SortCall]_vars

\* the client-side risk filter over every working set and list of levels of
\* the model
RiskFilterSpecInit == detail = DetailIdle /\ list = ListIdle /\ query = QueryIdle /\ sort = SortIdle /\ RiskFilterInit /\ paged = PagedIdle /\ stats = StatsIdle /\ health = HealthIdle /\ dash = DashIdle /\ panel = PanelIdle

SpecRiskFilter == RiskFilterSpecInit /\ [][RiskFilterNext]_vars

\* the Paginator: paginateData over every list, page and page size of the
\* model, and the walk from a page to the last one
PagedSpecInit == detail = DetailIdle /\ list = ListIdle /\ query = QueryIdle /\ sort = SortIdle /\ riskFilter = RiskFilterIdle /\ PagedInit /\ stats = StatsIdle /\ health = HealthIdle /\ dash = DashIdle /\ panel = PanelIdle

SpecPaged == PagedSpecInit /\ [][PagedNext]_vars

\* the Stats Aggregator: getDashboardStats over every working set and
\* rollups of the model
StatsSpecInit == detail = DetailIdle /\ list = ListIdle /\ query = QueryIdle /\ sort = SortIdle /\ riskFilter = RiskFilterIdle /\ paged = PagedIdle /\ StatsInit /\ health = HealthIdle /\ dash = DashIdle /\ panel = PanelIdle

SpecStats == StatsSpecInit /\ [][StatsCall]_vars

\* the Health Check: checkApiHealth against a server that answers, fails,
\* or stays silent
HealthSpecInit == AllIdle

SpecHealth == HealthSpecInit /\ [][HealthNext]_vars

\* the same, with time passing and the runtime delivering the timer and the
\* rejection of an aborted fetch; the server is under no obligation
HealthLiveInit == AllIdle

SpecHealthLive ==
  /\ HealthLiveInit /\ [][HealthNext]_vars
  /\ WF_vars(HealthTick) /\ WF_vars(HealthTimerFires) /\ WF_vars(HealthAbortRejects)

\* the dashboard page: its effect, its runs against a server that answers or
\* fails, and its handlers
DashSpecInit == AllIdle

SpecDash == DashSpecInit /\ [][DashNext]_vars

\* the filter panel, edited from the empty FilterSpec
PanelSpecInit == AllIdle

SpecPanel == PanelSpecInit /\ [][PanelNext]_vars

====
